---- MODULE Spec2Model ----
(***************************************************************************)
(* A model of the lipsum tree-walking evaluator.  The repository holds two *)
(* evaluators: src/interpreter.rs with the operator engine of              *)
(* src/binary.rs (variant "interpreter"), and src/interp.rs, which carries *)
(* its own operator engine (variant "interp").  Both are modelled; the     *)
(* variable `variant` says which one a behaviour runs.                     *)
(*                                                                         *)
(* The evaluator is a recursive function; the model unfolds it into a      *)
(* machine whose stack holds one frame per active handler (eval_let,       *)
(* eval_call, ...) with the handler's local variables and its position.    *)
(*                                                                         *)
(* Strings that programs can build or compare (Str payloads, printed       *)
(* lines) are sequences of character codes; fixed labels such as error     *)
(* messages and identifiers are TLA+ strings.                              *)
(***************************************************************************)
EXTENDS Integers, Sequences, FiniteSets, TLC

(***************************************************************************)
(* Bounds of the model.                                                    *)
(***************************************************************************)
\* integer literals of the generated operand programs range over -MaxLit..MaxLit
MaxLit == 2
\* handlers nest at most MaxStack deep
MaxStack == 48

(***************************************************************************)
(* Texts, as sequences of character codes.                                 *)
(***************************************************************************)
\* the text "[closure]"
str_closure == <<91, 99, 108, 111, 115, 117, 114, 101, 93>>
\* the text "true"
str_true == <<116, 114, 117, 101>>
\* the text "false"
str_false == <<102, 97, 108, 115, 101>>
\* the text "unit"
str_unit == <<117, 110, 105, 116>>
\* the text "a"
str_a == <<97>>
\* the text "b"
str_b == <<98>>
\* the text "("
str_open == <<40>>
\* the text ", "
str_comma == <<44, 32>>
\* the text ")"
str_close == <<41>>

(***************************************************************************)
(* Terms (ast.rs, as the evaluators destructure them).  A Location is      *)
(* modelled by a number that is unique to the node within its program.     *)
(***************************************************************************)
TInt(loc, v) == [kind |-> "Int", value |-> v, location |-> loc]
TStr(loc, s) == [kind |-> "Str", value |-> s, location |-> loc]
TBool(loc, b) == [kind |-> "Bool", value |-> b, location |-> loc]
TVar(loc, n) == [kind |-> "Var", text |-> n, location |-> loc]
TLet(loc, n, v, nx) == [kind |-> "Let", name |-> n, value |-> v, next |-> nx, location |-> loc]
TFunction(loc, ps, b) == [kind |-> "Function", parameters |-> ps, value |-> b, location |-> loc]
TCall(loc, c, as) == [kind |-> "Call", callee |-> c, arguments |-> as, location |-> loc]
TIf(loc, c, t, o) == [kind |-> "If", condition |-> c, then |-> t, otherwise |-> o, location |-> loc]
TBinary(loc, l, o, r) == [kind |-> "Binary", lhs |-> l, op |-> o, rhs |-> r, location |-> loc]
TTuple(loc, a, b) == [kind |-> "Tuple", first |-> a, second |-> b, location |-> loc]
TFirst(loc, x) == [kind |-> "First", value |-> x, location |-> loc]
TSecond(loc, x) == [kind |-> "Second", value |-> x, location |-> loc]
TPrint(loc, x) == [kind |-> "Print", value |-> x, location |-> loc]

BinaryOp == {"Eq", "Neq", "Lt", "Lte", "Gt", "Gte", "And", "Or", "Add", "Sub", "Mul", "Div", "Rem"}

(***************************************************************************)
(* Values.                                                                 *)
(***************************************************************************)
VInt(n) == [tag |-> "Int", v |-> n]
VStr(s) == [tag |-> "Str", v |-> s]
VBool(b) == [tag |-> "Bool", v |-> b]
VTuple(a, b) == [tag |-> "Tuple", first |-> a, second |-> b]
VUnit == [tag |-> "Unit"]

\* a detail text (full_text) is the sequence of the pieces that format! joins:
\* fixed text and displayed values
Lit(s) == [lit |-> s]
Txt(c) == [txt |-> c]

\* Result<Value, RuntimeError>
Ok(v) == [ok |-> TRUE, val |-> v]
Err(m, t, l) == [ok |-> FALSE, err |-> [message |-> m, full_text |-> t, location |-> l]]
\* a Rust panic: the process aborts
Panic == [ok |-> FALSE, panic |-> TRUE]
IsPanic(r) == "panic" \in DOMAIN r

(***************************************************************************)
(* Decimal rendering of an integer (i64::to_string, i32::to_string).       *)
(***************************************************************************)
RECURSIVE DigitsOf(_)
DigitsOf(n) ==
    IF n < 10 THEN <<48 + n>>
    ELSE DigitsOf(n \div 10) \o <<48 + (n % 10)>>

IntToString(n) == IF n < 0 THEN <<45>> \o DigitsOf(0 - n) ELSE DigitsOf(n)

\* impl Display for Value
RECURSIVE Display(_)
Display(value) ==
    CASE value.tag = "Closure" -> str_closure
      [] value.tag = "Int" -> IntToString(value.v)
      [] value.tag = "Str" -> value.v
      [] value.tag = "Bool" -> IF value.v THEN str_true ELSE str_false
      [] value.tag = "Tuple" ->
            str_open \o Display(value.first) \o str_comma \o Display(value.second) \o str_close
      [] value.tag = "Unit" -> str_unit

(***************************************************************************)
(* Contexts: HashMap<String, Value>.                                       *)
(***************************************************************************)
EmptyContext == <<>>
Insert(m, n, v) == [y \in (DOMAIN m) \cup {n} |-> IF y = n THEN v ELSE m[y]]
\* im::HashMap::union keeps the receiver's value for a key that both maps hold
Union(a, b) == [y \in (DOMAIN a) \cup (DOMAIN b) |-> IF y \in DOMAIN a THEN a[y] ELSE b[y]]
Binds(m, n) == n \in DOMAIN m

(***************************************************************************)
(* Native operations on the payloads.                                      *)
(***************************************************************************)
Abs(n) == IF n < 0 THEN 0 - n ELSE n

\* i32::MAX and i32::MIN
I32Max == 2147483647
I32Min == (0 - I32Max) - 1

\* The payload of an Int is a 32-bit word v, and an i64 that does not fit 32
\* bits carries the number of times it went around them as well: the integer
\* is v + over * 2^32.  Add32 and Sub32 are the sum and the difference of two
\* 32-bit integers in that form.
Add32(a, b) ==
    IF b >= 0 /\ a > I32Max - b
    THEN [v |-> ((a - I32Max) + (b - I32Max)) - 2, over |-> 1]
    ELSE IF b < 0 /\ a < I32Min - b
    THEN [v |-> (a - I32Min) + (b - I32Min), over |-> 0 - 1]
    ELSE [v |-> a + b, over |-> 0]

Sub32(a, b) ==
    IF b < 0 /\ a > I32Max + b
    THEN [v |-> ((a - I32Max) - (b - I32Min)) - 1, over |-> 1]
    ELSE IF b > 0 /\ a < I32Min + b
    THEN [v |-> ((a - I32Min) + (I32Max - b)) + 1, over |-> 0 - 1]
    ELSE [v |-> a - b, over |-> 0]

WideAdd(p, q) ==
    LET s == Add32(p.v, q.v) IN [v |-> s.v, over |-> p.over + q.over + s.over]

\* m * k in that form, where k is a power of two and unit is 2^32 / k
Shift(m, k, unit) ==
    LET high == m \div unit
        low == m % unit
    IN IF low + low >= unit THEN [v |-> (low - unit) * k, over |-> high + 1]
       ELSE [v |-> low * k, over |-> high]

\* the product of two 32-bit integers, which always fits an i64, summed from
\* the products of their 16-bit halves
Mul64(a, b) ==
    LET a1 == a \div 65536
        a0 == a % 65536
        b1 == b \div 65536
        b0 == b % 65536
    IN WideAdd(WideAdd([v |-> 0, over |-> a1 * b1],
                       WideAdd(Shift(a1 * b0, 65536, 65536), Shift(a0 * b1, 65536, 65536))),
               WideAdd(Shift(a0 * (b0 \div 256), 256, 16777216),
                       [v |-> a0 * (b0 % 256), over |-> 0]))

\* Rust's integer `/` truncates toward zero; i32::MIN / -1 is not among its
\* arguments here
TruncDiv(a, b) ==
    IF b = I32Min THEN (IF a = I32Min THEN 1 ELSE 0)
    ELSE LET floor == a \div Abs(b)
             quotient == IF a < 0 /\ a % Abs(b) # 0 THEN floor + 1 ELSE floor
         IN IF b < 0 THEN 0 - quotient ELSE quotient
\* Rust's integer `%` takes the sign of the dividend
TruncRem(a, b) == a - b * TruncDiv(a, b)

\* the 32-bit operand of an arithmetic operator; within the bounds an i64 that
\* does not fit 32 bits is a result only, never an operand
Narrow(value) == CASE "over" \notin DOMAIN value -> value.v

\* Value::Int(i64) of interpreter.rs
Int64(wide) ==
    IF wide.over = 0 THEN [tag |-> "Int", v |-> wide.v]
    ELSE [tag |-> "Int", v |-> wide.v, over |-> wide.over]

\* The build either checks integer overflow (the dev profile: the operation
\* panics) or not (the release profile: the result wraps).
VARIABLE overflow_checks

\* an i32 result of `+`, `-` or `*` in interp.rs
Int32(wide) ==
    IF wide.over # 0 /\ overflow_checks THEN [ok |-> FALSE, panic |-> TRUE]
    ELSE [ok |-> TRUE, val |-> [tag |-> "Int", v |-> wide.v]]

\* String's `<` compares byte by byte, a proper prefix being smaller
RECURSIVE StrLt(_, _)
StrLt(s, t) ==
    IF t = <<>> THEN FALSE
    ELSE IF s = <<>> THEN TRUE
    ELSE IF Head(s) # Head(t) THEN Head(s) < Head(t)
    ELSE StrLt(Tail(s), Tail(t))

\* bool's `<`: false < true
BoolLt(a, b) == (~a) /\ b

SameTag(l, r) == l.tag = r.tag /\ l.tag \in {"Bool", "Str", "Int"}

PayloadLt(l, r) ==
    CASE l.tag = "Bool" -> BoolLt(l.v, r.v)
      [] l.tag = "Str" -> StrLt(l.v, r.v)
      [] l.tag = "Int" -> l.v < r.v

(***************************************************************************)
(* The operator engine of binary.rs (impl Value).  The six comparisons of  *)
(* interp.rs are the same text.                                            *)
(***************************************************************************)
\* a variant of invalid_comparison that carries the label of And and Or
invalid_comparison_mislabelled(l_value, r_value, location) ==
    Err("invalid binary operation",
        <<Txt(Display(l_value)), Lit(" and "), Txt(Display(r_value)), Lit(" cannot be compared")>>,
        location)

invalid_comparison(l_value, r_value, location) ==
    Err("invalid comparison",
        <<Txt(Display(l_value)), Lit(" and "), Txt(Display(r_value)), Lit(" cannot be compared")>>,
        location)

Value_eq(l, r, location) ==
    IF SameTag(l, r) THEN Ok(VBool(l.v = r.v)) ELSE invalid_comparison(l, r, location)

Value_neq(l, r, location) ==
    IF SameTag(l, r) THEN Ok(VBool(l.v # r.v)) ELSE invalid_comparison(l, r, location)

Value_lt(l, r, location) ==
    IF SameTag(l, r) THEN Ok(VBool(PayloadLt(l, r))) ELSE invalid_comparison(l, r, location)

Value_lte(l, r, location) ==
    IF SameTag(l, r) THEN Ok(VBool(PayloadLt(l, r) \/ l.v = r.v))
    ELSE invalid_comparison(l, r, location)

Value_gt(l, r, location) ==
    IF SameTag(l, r) THEN Ok(VBool(PayloadLt(r, l))) ELSE invalid_comparison(l, r, location)

\* a variant of Value_gte that compares with > on every payload
Value_gte_strict(l, r, location) ==
    IF SameTag(l, r) THEN Ok(VBool(PayloadLt(r, l))) ELSE invalid_comparison(l, r, location)

Value_gte(l, r, location) ==
    IF SameTag(l, r) THEN Ok(VBool(PayloadLt(r, l) \/ l.v = r.v))
    ELSE invalid_comparison(l, r, location)

BothBool(l, r) == l.tag = "Bool" /\ r.tag = "Bool"
BothInt(l, r) == l.tag = "Int" /\ r.tag = "Int"

short_circuit_text == <<Lit("only booleans can be used on short-circuit operations")>>

Value_and(l, r, location) ==
    IF BothBool(l, r) THEN Ok(VBool(l.v /\ r.v))
    ELSE Err("invalid AND operation", short_circuit_text, location)

Value_or(l, r, location) ==
    IF BothBool(l, r) THEN Ok(VBool(l.v \/ r.v))
    ELSE Err("invalid OR operation", short_circuit_text, location)

Value_add(l, r, location) ==
    CASE BothInt(l, r) -> Ok(Int64(Add32(Narrow(l), Narrow(r))))
      [] l.tag = "Str" /\ r.tag = "Str" -> Ok(VStr(l.v \o r.v))
      [] l.tag = "Str" /\ r.tag = "Int" -> Ok(VStr(l.v \o IntToString(r.v)))
      [] l.tag = "Int" /\ r.tag = "Str" -> Ok(VStr(IntToString(l.v) \o r.v))
      [] OTHER -> Err("invalid addition",
                      <<Txt(Display(l)), Lit(" cannot be added to "), Txt(Display(r))>>, location)

Value_sub(l, r, location) ==
    IF BothInt(l, r) THEN Ok(Int64(Sub32(Narrow(l), Narrow(r))))
    ELSE Err("invalid subtraction",
             <<Txt(Display(l)), Lit(" cannot be subtracted by "), Txt(Display(r))>>, location)

Value_mul(l, r, location) ==
    IF BothInt(l, r) THEN Ok(Int64(Mul64(Narrow(l), Narrow(r))))
    ELSE Err("invalid multiplication",
             <<Txt(Display(l)), Lit(" cannot be multiplied by "), Txt(Display(r)), Lit(" ")>>, location)

Value_div(l, r, location) ==
    CASE BothInt(l, r) /\ r.v = 0 ->
            Err("division by zero", <<Lit("zero cannot be divised")>>, location)
      [] BothInt(l, r) /\ r.v # 0 ->
            IF Narrow(l) = I32Min /\ Narrow(r) = 0 - 1 THEN Ok(Int64(Sub32(0, I32Min)))
            ELSE Ok(VInt(TruncDiv(Narrow(l), Narrow(r))))
      [] OTHER -> Err("invalid division",
                      <<Txt(Display(l)), Lit(" cannot be divised by "), Txt(Display(r))>>, location)

Value_rem(l, r, location) ==
    CASE BothInt(l, r) /\ r.v = 0 ->
            Err("division by zero", <<Lit("cannot get remainder from a zero division")>>, location)
      [] BothInt(l, r) /\ r.v # 0 ->
            IF Narrow(l) = I32Min /\ Narrow(r) = 0 - 1 THEN Ok(VInt(0))
            ELSE Ok(VInt(TruncRem(Narrow(l), Narrow(r))))
      [] OTHER -> Err("invalid remainder operation",
                      <<Lit("cannot get remainder from "), Txt(Display(l)), Lit(" and "), Txt(Display(r)),
                        Lit(" division")>>, location)

\* a variant of binary_op that hands every operator the location of the Binary
binary_op_at_binary(l, binary, r) ==
    CASE binary.op = "Eq" -> Value_eq(l, r, binary.location)
      [] binary.op = "Neq" -> Value_neq(l, r, binary.location)
      [] binary.op = "Lt" -> Value_lt(l, r, binary.location)
      [] binary.op = "Lte" -> Value_lte(l, r, binary.location)
      [] binary.op = "Gt" -> Value_gt(l, r, binary.location)
      [] binary.op = "Gte" -> Value_gte(l, r, binary.location)
      [] binary.op = "And" -> Value_and(l, r, binary.location)
      [] binary.op = "Or" -> Value_or(l, r, binary.location)
      [] binary.op = "Add" -> Value_add(l, r, binary.location)
      [] binary.op = "Sub" -> Value_sub(l, r, binary.location)
      [] binary.op = "Mul" -> Value_mul(l, r, binary.location)
      [] binary.op = "Div" -> Value_div(l, r, binary.location)
      [] binary.op = "Rem" -> Value_rem(l, r, binary.location)

\* Value::binary_op: every operator is handed the location of the left operand
binary_op(l, binary, r) ==
    CASE binary.op = "Eq" -> Value_eq(l, r, binary.lhs.location)
      [] binary.op = "Neq" -> Value_neq(l, r, binary.lhs.location)
      [] binary.op = "Lt" -> Value_lt(l, r, binary.lhs.location)
      [] binary.op = "Lte" -> Value_lte(l, r, binary.lhs.location)
      [] binary.op = "Gt" -> Value_gt(l, r, binary.lhs.location)
      [] binary.op = "Gte" -> Value_gte(l, r, binary.lhs.location)
      [] binary.op = "And" -> Value_and(l, r, binary.lhs.location)
      [] binary.op = "Or" -> Value_or(l, r, binary.lhs.location)
      [] binary.op = "Add" -> Value_add(l, r, binary.lhs.location)
      [] binary.op = "Sub" -> Value_sub(l, r, binary.lhs.location)
      [] binary.op = "Mul" -> Value_mul(l, r, binary.lhs.location)
      [] binary.op = "Div" -> Value_div(l, r, binary.lhs.location)
      [] binary.op = "Rem" -> Value_rem(l, r, binary.lhs.location)

(***************************************************************************)
(* The operator engine of interp.rs (impl Value).                          *)
(***************************************************************************)
interp_and(l, r, location) ==
    IF BothBool(l, r) THEN Ok(VBool(l.v /\ r.v))
    ELSE Err("invalid binary operation", short_circuit_text, location)

interp_or(l, r, location) ==
    IF BothBool(l, r) THEN Ok(VBool(l.v \/ r.v))
    ELSE Err("invalid binary operation", short_circuit_text, location)

\* the four error arms of an arithmetic operator differ in their detail only
interp_numeric_error(l, r, what, location) ==
    CASE l.tag = "Str" /\ r.tag = "Str" ->
            Err("invalid numeric operation", <<Lit("strings cannot be "), Lit(what)>>, location)
      [] l.tag = "Bool" /\ r.tag = "Bool" ->
            Err("invalid numeric operation", <<Lit("booleans cannot be "), Lit(what)>>, location)
      [] l.tag = "Closure" /\ r.tag = "Closure" ->
            Err("invalid numeric operation", <<Lit("closures cannot be "), Lit(what)>>, location)
      [] OTHER ->
            Err("invalid numeric operation",
                <<Lit("different types cannot be used on the same operation")>>, location)

interp_add(l, r, location) ==
    IF BothInt(l, r) THEN Int32(Add32(l.v, r.v))
    ELSE interp_numeric_error(l, r, "added", location)

interp_sub(l, r, location) ==
    IF BothInt(l, r) THEN Int32(Sub32(l.v, r.v))
    ELSE interp_numeric_error(l, r, "subtracted", location)

\* interp.rs:220 computes l_int - r_int
interp_mul(l, r, location) ==
    IF BothInt(l, r) THEN Int32(Sub32(l.v, r.v))
    ELSE interp_numeric_error(l, r, "multiplied", location)

\* interp.rs:246 divides with no test of the divisor: i32 `/` panics on zero,
\* and on i32::MIN / -1 under either profile
i32_div(a, b) ==
    IF b = 0 \/ (a = I32Min /\ b = 0 - 1) THEN Panic ELSE Ok(VInt(TruncDiv(a, b)))

interp_div(l, r, location) ==
    IF BothInt(l, r)
    THEN i32_div(l.v, r.v)
    ELSE interp_numeric_error(l, r, "divided", location)

\* interp.rs:272 computes l_int / r_int
interp_rem(l, r, location) ==
    IF BothInt(l, r)
    THEN i32_div(l.v, r.v)
    ELSE interp_numeric_error(l, r, "used with rem", location)

\* the dispatch at the end of interp.rs eval_binary
interp_binary_op(l, binary, r) ==
    CASE binary.op = "Eq" -> Value_eq(l, r, binary.lhs.location)
      [] binary.op = "Neq" -> Value_neq(l, r, binary.lhs.location)
      [] binary.op = "Lt" -> Value_lt(l, r, binary.lhs.location)
      [] binary.op = "Lte" -> Value_lte(l, r, binary.lhs.location)
      [] binary.op = "Gt" -> Value_gt(l, r, binary.lhs.location)
      [] binary.op = "Gte" -> Value_gte(l, r, binary.lhs.location)
      [] binary.op = "And" -> interp_and(l, r, binary.lhs.location)
      [] binary.op = "Or" -> interp_or(l, r, binary.lhs.location)
      [] binary.op = "Add" -> interp_add(l, r, binary.lhs.location)
      [] binary.op = "Sub" -> interp_sub(l, r, binary.lhs.location)
      [] binary.op = "Mul" -> interp_mul(l, r, binary.lhs.location)
      [] binary.op = "Div" -> interp_div(l, r, binary.lhs.location)
      [] binary.op = "Rem" -> interp_rem(l, r, binary.lhs.location)

(***************************************************************************)
(* The argument fingerprint: what Value::hash feeds to the hasher.         *)
(***************************************************************************)
\* the text "Int("
str_Int == <<73, 110, 116, 40>>
\* the text "Str("
str_Str == <<83, 116, 114, 40>>
\* the text "Bool("
str_Bool == <<66, 111, 111, 108, 40>>
\* the text "Tuple("
str_Tuple == <<84, 117, 112, 108, 101, 40>>

\* interpreter.rs impl Hash for Value: the String whose hash is taken, for a
\* value that is no closure; a Tuple is formatted by its Display
hash_text(value) ==
    CASE value.tag = "Int" -> str_Int \o IntToString(value.v) \o str_close
      [] value.tag = "Str" -> str_Str \o value.v \o str_close
      [] value.tag = "Bool" -> str_Bool \o (IF value.v THEN str_true ELSE str_false) \o str_close
      [] value.tag = "Tuple" -> str_Tuple \o Display(value) \o str_close

\* no argument list is being hashed
NotHashing == [arguments |-> <<>>, i |-> 1, fed |-> <<>>, status |-> "idle"]

\* arguments[i] is the next to hash, fed holds the texts fed so far
Hashing(arguments, i, fed, status) ==
    [arguments |-> arguments, i |-> i, fed |-> fed, status |-> status]

(***************************************************************************)
(* The state of a run.                                                     *)
(***************************************************************************)
VARIABLES
    variant,    \* "interpreter" (interpreter.rs + binary.rs) or "interp" (interp.rs)
    program,    \* File.expression, the term handed to the top-level eval
    ctrl,       \* what the machine does next: evaluate a term, or hand back a result
    stack,      \* the active handlers, innermost first
    ctxs,       \* interpreter.rs: the Context objects that `&mut Context` points to
    rcs,        \* interpreter.rs: the Rc<RefCell<Context>> cells closures hold
    out,        \* the lines written by println!
    snaps,      \* history: per cell of rcs, its content when the closure was created
    binders,    \* history: per closure, the name of the first Let that bound it
    calls,      \* history: the calls that returned, with closure, arguments and result
    hasher      \* the arguments handed to Value::hash / cache_key, and what came of them

vars == <<variant, overflow_checks, program, ctrl, stack, ctxs, rcs, out, snaps, binders, calls, hasher>>

Interpreter == variant = "interpreter"
Interp == variant = "interp"

\* A context reference is an index into ctxs under interpreter.rs (the callee
\* mutates what the caller passed) and the map itself under interp.rs (every
\* context is an immutable im::HashMap).
Ctx(c) == IF Interpreter THEN ctxs[c] ELSE c

\* the captured context of a closure
ClosureContext(closure) == IF Interpreter THEN rcs[closure.context] ELSE closure.context

Eval(term, c) == [mode |-> "eval", term |-> term, ctx |-> c]
Ret(term, res) == [mode |-> "ret", term |-> term, res |-> res]
Aborted == [mode |-> "panic"]

Evaluating(kinds) == ctrl.mode = "eval" /\ ctrl.term.kind \in kinds
Returned(k, stage) ==
    /\ ctrl.mode = "ret"
    /\ stack # <<>>
    /\ Head(stack).k = k
    /\ Head(stack).stage = stage
CanPush == Len(stack) < MaxStack
Push(f) == <<f>> \o stack
\* a variant of ReturnSame that moves an error to the location of the handler's term
ReturnSame_relocated ==
    /\ ctrl' = Ret(Head(stack).term,
                   IF ctrl.res.ok THEN ctrl.res
                   ELSE Err(ctrl.res.err.message, ctrl.res.err.full_text,
                            Head(stack).term.location))
    /\ stack' = Tail(stack)

\* the handler returns the result of its subterm as it is (the `?` operator on
\* an error, a handler's last expression on any result)
ReturnSame ==
    /\ ctrl' = Ret(Head(stack).term, ctrl.res)
    /\ stack' = Tail(stack)

Frame(k, stage, term, c) == [k |-> k, stage |-> stage, term |-> term, ctx |-> c]

(***************************************************************************)
(* eval: the literals and Var.                                             *)
(***************************************************************************)
literal_value(term) ==
    CASE term.kind = "Int" -> VInt(term.value)
      [] term.kind = "Str" -> VStr(term.value)
      [] term.kind = "Bool" -> VBool(term.value)

eval_literal ==
    /\ Evaluating({"Int", "Str", "Bool"})
    /\ ctrl' = Ret(ctrl.term, Ok(literal_value(ctrl.term)))
    /\ UNCHANGED <<variant, overflow_checks, program, stack, ctxs, rcs, out, snaps, binders, calls, hasher>>

var_result(var, context) ==
    IF Binds(context, var.text)
    THEN Ok(context[var.text])
    ELSE Err("unbound variable \"" \o var.text \o "\"",
             <<Lit("variable \""), Lit(var.text),
               Lit("\" was not defined in the current scope")>>,
             var.location)

eval_var ==
    /\ Evaluating({"Var"})
    /\ ctrl' = Ret(ctrl.term, var_result(ctrl.term, Ctx(ctrl.ctx)))
    /\ UNCHANGED <<variant, overflow_checks, program, stack, ctxs, rcs, out, snaps, binders, calls, hasher>>

(***************************************************************************)
(* eval_function.                                                          *)
(***************************************************************************)
\* interpreter.rs: the closure holds a fresh cell with a copy of the context
eval_function ==
    /\ Interpreter
    /\ Evaluating({"Function"})
    /\ rcs' = Append(rcs, ctxs[ctrl.ctx])
    /\ snaps' = Append(snaps, ctxs[ctrl.ctx])
    /\ ctrl' = Ret(ctrl.term,
                   Ok([tag |-> "Closure",
                       parameters |-> ctrl.term.parameters,
                       body |-> ctrl.term.value,
                       context |-> Len(rcs) + 1]))
    /\ UNCHANGED <<variant, overflow_checks, program, stack, ctxs, out, binders, calls, hasher>>

\* interp.rs is_pure: only the top of the body, through Function terms
RECURSIVE is_pure(_)
is_pure(term) ==
    CASE term.kind = "Function" -> is_pure(term.value)
      [] term.kind = "Print" -> FALSE
      [] OTHER -> TRUE

\* interp.rs: the closure holds the context by value
interp_eval_function ==
    /\ Interp
    /\ Evaluating({"Function"})
    /\ ctrl' = Ret(ctrl.term,
                   Ok([tag |-> "Closure",
                       parameters |-> ctrl.term.parameters,
                       body |-> ctrl.term.value,
                       context |-> ctrl.ctx,
                       is_pure |-> is_pure(ctrl.term.value)]))
    /\ UNCHANGED <<variant, overflow_checks, program, stack, ctxs, rcs, out, snaps, binders, calls, hasher>>

(***************************************************************************)
(* eval_let.                                                               *)
(***************************************************************************)
\* the identity of a closure: its cell under interpreter.rs, its value under
\* interp.rs
ClosureId(closure) == IF Interpreter THEN closure.context ELSE closure

HasBinder(closure) == \E i \in 1..Len(binders) : binders[i].id = ClosureId(closure)
BinderOf(closure) ==
    binders[CHOOSE i \in 1..Len(binders) : binders[i].id = ClosureId(closure)].name
\* history: remember the first Let that binds the closure
RecordBinder(closure, name) ==
    IF HasBinder(closure) THEN binders
    ELSE Append(binders, [id |-> ClosureId(closure), name |-> name])

\* both files start with eval(let_.value, context, cache)?
\* `before` is history: the context as it was when the Let was entered
eval_let ==
    /\ Evaluating({"Let"})
    /\ CanPush
    /\ stack' = Push([k |-> "let", stage |-> "value", term |-> ctrl.term, ctx |-> ctrl.ctx,
                      before |-> Ctx(ctrl.ctx)])
    /\ ctrl' = Eval(ctrl.term.value, ctrl.ctx)
    /\ UNCHANGED <<variant, overflow_checks, program, ctxs, rcs, out, snaps, binders, calls, hasher>>

\* the frame of a Let while let_.next is evaluated; `bound` is history: the
\* value the name was bound to
LetBodyFrame(frame, value) ==
    [k |-> "let", stage |-> "next", term |-> frame.term, ctx |-> frame.ctx,
     before |-> frame.before, bound |-> value]

\* interpreter.rs:90-110: the caller's context is extended in place; a closure
\* is first inserted under the Let's name into its own cell
eval_let_bind ==
    /\ Interpreter
    /\ Returned("let", "value")
    /\ LET frame == Head(stack)
           name == frame.term.name
       IN IF ctrl.res.ok
          THEN /\ rcs' = IF ctrl.res.val.tag = "Closure"
                         THEN [rcs EXCEPT ![ctrl.res.val.context] =
                                   Insert(@, name, ctrl.res.val)]
                         ELSE rcs
               /\ ctxs' = [ctxs EXCEPT ![frame.ctx] = Insert(@, name, ctrl.res.val)]
               /\ binders' = IF ctrl.res.val.tag = "Closure"
                             THEN RecordBinder(ctrl.res.val, name)
                             ELSE binders
               /\ stack' = <<LetBodyFrame(frame, ctrl.res.val)>> \o Tail(stack)
               /\ ctrl' = Eval(frame.term.next, frame.ctx)
          ELSE /\ ReturnSame
               /\ UNCHANGED <<ctxs, rcs, binders>>
    /\ UNCHANGED <<variant, overflow_checks, program, out, snaps, calls, hasher>>

\* interp.rs:297-302: context.update builds a new map for the body alone
interp_eval_let_bind ==
    /\ Interp
    /\ Returned("let", "value")
    /\ LET frame == Head(stack)
           name == frame.term.name
       IN IF ctrl.res.ok
          THEN /\ binders' = IF ctrl.res.val.tag = "Closure"
                             THEN RecordBinder(ctrl.res.val, name)
                             ELSE binders
               /\ stack' = <<LetBodyFrame(frame, ctrl.res.val)>> \o Tail(stack)
               /\ ctrl' = Eval(frame.term.next, Insert(frame.ctx, name, ctrl.res.val))
          ELSE /\ ReturnSame
               /\ UNCHANGED binders
    /\ UNCHANGED <<variant, overflow_checks, program, ctxs, rcs, out, snaps, calls, hasher>>

\* the value of the Let is the value of let_.next
eval_let_return ==
    /\ Returned("let", "next")
    /\ ReturnSame
    /\ UNCHANGED <<variant, overflow_checks, program, ctxs, rcs, out, snaps, binders, calls, hasher>>

(***************************************************************************)
(* eval_call.                                                              *)
(***************************************************************************)
Min(a, b) == IF a < b THEN a ELSE b

\* a variant of invalid_function_call that blames the callee term
invalid_function_call_at_callee(call, value) ==
    Err("invalid function call",
        <<Txt(Display(value)), Lit(" cannot be called as a function")>>,
        call.callee.location)

invalid_function_call(call, value) ==
    Err("invalid function call",
        <<Txt(Display(value)), Lit(" cannot be called as a function")>>,
        call.location)

\* both files start with eval(call.callee, context, cache)?
eval_call ==
    /\ Evaluating({"Call"})
    /\ CanPush
    /\ stack' = Push(Frame("call", "callee", ctrl.term, ctrl.ctx))
    /\ ctrl' = Eval(ctrl.term.callee, ctrl.ctx)
    /\ UNCHANGED <<variant, overflow_checks, program, ctxs, rcs, out, snaps, binders, calls, hasher>>

\* the frame of a call once the callee is known to be a closure
CallFrame(frame, stage, closure, context, i, arguments) ==
    [k |-> "call", stage |-> stage, term |-> frame.term, ctx |-> frame.ctx,
     closure |-> closure, context |-> context, i |-> i, arguments |-> arguments]

\* interpreter.rs:114-132: new_context is a copy of the closure's cell; the loop
\* runs over zip(parameters, arguments), so over the shorter of the two
eval_call_callee ==
    /\ Interpreter
    /\ Returned("call", "callee")
    /\ LET frame == Head(stack)
           call == frame.term
           value == ctrl.res.val
           new_context == Len(ctxs) + 1
       IN IF ~ctrl.res.ok
          THEN /\ ReturnSame
               /\ UNCHANGED ctxs
          ELSE IF value.tag # "Closure"
          THEN /\ ctrl' = Ret(call, invalid_function_call(call, value))
               /\ stack' = Tail(stack)
               /\ UNCHANGED ctxs
          ELSE /\ ctxs' = Append(ctxs, rcs[value.context])
               /\ IF Min(Len(value.parameters), Len(call.arguments)) = 0
                  THEN /\ stack' = <<CallFrame(frame, "body", value, new_context, 0, <<>>)>>
                                   \o Tail(stack)
                       /\ ctrl' = Eval(value.body, new_context)
                  ELSE /\ stack' = <<CallFrame(frame, "arg", value, new_context, 1, <<>>)>>
                                   \o Tail(stack)
                       /\ ctrl' = Eval(call.arguments[1], frame.ctx)
    /\ UNCHANGED <<variant, overflow_checks, program, rcs, out, snaps, binders, calls, hasher>>

\* interpreter.rs:119-126: one turn of the loop, then the body
eval_call_argument ==
    /\ Interpreter
    /\ Returned("call", "arg")
    /\ LET frame == Head(stack)
           call == frame.term
           closure == frame.closure
           arguments == Append(frame.arguments, ctrl.res.val)
       IN IF ~ctrl.res.ok
          THEN /\ ReturnSame
               /\ UNCHANGED ctxs
          ELSE /\ ctxs' = [ctxs EXCEPT ![frame.context] =
                               Insert(@, closure.parameters[frame.i], ctrl.res.val)]
               /\ IF frame.i < Min(Len(closure.parameters), Len(call.arguments))
                  THEN /\ stack' = <<CallFrame(frame, "arg", closure, frame.context,
                                               frame.i + 1, arguments)>> \o Tail(stack)
                       /\ ctrl' = Eval(call.arguments[frame.i + 1], frame.ctx)
                  ELSE /\ stack' = <<CallFrame(frame, "body", closure, frame.context,
                                               frame.i, arguments)>> \o Tail(stack)
                       /\ ctrl' = Eval(closure.body, frame.context)
    /\ UNCHANGED <<variant, overflow_checks, program, rcs, out, snaps, binders, calls, hasher>>

\* interp.rs update_context: binds parameter by parameter, and fails when one
\* of the two lists ends before the other
RECURSIVE update_context(_, _, _, _)
update_context(parameters, arguments, acc, location) ==
    IF parameters = <<>> /\ arguments = <<>> THEN [ok |-> TRUE, context |-> acc]
    ELSE IF parameters = <<>> \/ arguments = <<>>
    THEN Err("invalid arguments",
             <<Lit("expecting "), Txt(IntToString(Len(parameters))),
               Lit(" arguments but got "), Txt(IntToString(Len(arguments)))>>,
             location)
    ELSE update_context(Tail(parameters), Tail(arguments),
                        Insert(acc, Head(parameters), Head(arguments)), location)

\* interp.rs:387-394: update_context, then eval_body (which does not use the cache)
interp_call_body(frame, closure, context, arguments) ==
    LET call == frame.term
        updated == update_context(closure.parameters, arguments, context, call.location)
    IN IF updated.ok
       THEN /\ stack' = <<CallFrame(frame, "body", closure, updated.context,
                                    Len(arguments), arguments)>> \o Tail(stack)
            /\ ctrl' = Eval(closure.body, updated.context)
       ELSE /\ ctrl' = Ret(call, updated)
            /\ stack' = Tail(stack)

\* interp.rs:374-385: the arguments are evaluated in closure.context.union(context)
interp_eval_call_callee ==
    /\ Interp
    /\ Returned("call", "callee")
    /\ LET frame == Head(stack)
           call == frame.term
           value == ctrl.res.val
           context == Union(value.context, frame.ctx)
       IN IF ~ctrl.res.ok
          THEN ReturnSame
          ELSE IF value.tag # "Closure"
          THEN /\ ctrl' = Ret(call, invalid_function_call(call, value))
               /\ stack' = Tail(stack)
          ELSE IF call.arguments = <<>>
          THEN interp_call_body(frame, value, context, <<>>)
          ELSE /\ stack' = <<CallFrame(frame, "arg", value, context, 1, <<>>)>> \o Tail(stack)
               /\ ctrl' = Eval(call.arguments[1], context)
    /\ UNCHANGED <<variant, overflow_checks, program, ctxs, rcs, out, snaps, binders, calls, hasher>>

\* interp.rs eval_arguments: every argument of the call, left to right
interp_eval_call_argument ==
    /\ Interp
    /\ Returned("call", "arg")
    /\ LET frame == Head(stack)
           call == frame.term
           acc == Append(frame.arguments, ctrl.res.val)
       IN IF ~ctrl.res.ok
          THEN ReturnSame
          ELSE IF frame.i < Len(call.arguments)
          THEN /\ stack' = <<CallFrame(frame, "arg", frame.closure, frame.context,
                                       frame.i + 1, acc)>> \o Tail(stack)
               /\ ctrl' = Eval(call.arguments[frame.i + 1], frame.context)
          ELSE interp_call_body(frame, frame.closure, frame.context, acc)
    /\ UNCHANGED <<variant, overflow_checks, program, ctxs, rcs, out, snaps, binders, calls, hasher>>

\* the value of the call is the value of the body
eval_call_return ==
    /\ Returned("call", "body")
    /\ ReturnSame
    /\ calls' = calls \cup {[closure |-> Head(stack).closure,
                              arguments |-> Head(stack).arguments,
                              res |-> ctrl.res]}
    /\ UNCHANGED <<variant, overflow_checks, program, ctxs, rcs, out, snaps, binders, hasher>>

(***************************************************************************)
(* eval_if (the same text in both files).                                  *)
(***************************************************************************)
invalid_if_condition(if_, condition_result) ==
    Err("invalid if condition",
        <<Txt(Display(condition_result)),
          Lit(" can't be used as an if condition. use a boolean instead")>>,
        if_.condition.location)

\* a variant of if_branch that takes the then branch whatever the condition
if_branch_always_then(if_, condition) == if_.then

\* the branch that a boolean condition selects
if_branch(if_, condition) == IF condition THEN if_.then ELSE if_.otherwise

eval_if ==
    /\ Evaluating({"If"})
    /\ CanPush
    /\ stack' = Push(Frame("if", "condition", ctrl.term, ctrl.ctx))
    /\ ctrl' = Eval(ctrl.term.condition, ctrl.ctx)
    /\ UNCHANGED <<variant, overflow_checks, program, ctxs, rcs, out, snaps, binders, calls, hasher>>

eval_if_condition ==
    /\ Returned("if", "condition")
    /\ LET frame == Head(stack)
           if_ == frame.term
       IN IF ~ctrl.res.ok
          THEN ReturnSame
          ELSE IF ctrl.res.val.tag # "Bool"
          THEN /\ ctrl' = Ret(if_, invalid_if_condition(if_, ctrl.res.val))
               /\ stack' = Tail(stack)
          ELSE /\ stack' = <<[k |-> "if", stage |-> "branch", term |-> if_, ctx |-> frame.ctx,
                              condition |-> ctrl.res.val.v]>> \o Tail(stack)
               /\ ctrl' = Eval(if_branch(if_, ctrl.res.val.v), frame.ctx)
    /\ UNCHANGED <<variant, overflow_checks, program, ctxs, rcs, out, snaps, binders, calls, hasher>>

eval_if_return ==
    /\ Returned("if", "branch")
    /\ ReturnSame
    /\ UNCHANGED <<variant, overflow_checks, program, ctxs, rcs, out, snaps, binders, calls, hasher>>

(***************************************************************************)
(* eval_binary.                                                            *)
(***************************************************************************)
eval_binary ==
    /\ Evaluating({"Binary"})
    /\ CanPush
    /\ stack' = Push(Frame("binary", "lhs", ctrl.term, ctrl.ctx))
    /\ ctrl' = Eval(ctrl.term.lhs, ctrl.ctx)
    /\ UNCHANGED <<variant, overflow_checks, program, ctxs, rcs, out, snaps, binders, calls, hasher>>

\* a variant of binary_after_lhs that short-circuits And and Or
binary_after_lhs_short_circuit(binary, l_value, context) ==
    IF binary.op \in {"And", "Or"} /\ l_value.tag = "Bool" /\ l_value.v = (binary.op = "Or")
    THEN Ret(binary.rhs, Ok(l_value))
    ELSE Eval(binary.rhs, context)

\* what follows a left operand that evaluated to l_value: the right operand
\* is evaluated whatever the operator and the left value are
binary_after_lhs(binary, l_value, context) == Eval(binary.rhs, context)

eval_binary_lhs ==
    /\ Returned("binary", "lhs")
    /\ LET frame == Head(stack)
       IN IF ~ctrl.res.ok
          THEN ReturnSame
          ELSE /\ stack' = <<[k |-> "binary", stage |-> "rhs", term |-> frame.term,
                              ctx |-> frame.ctx, l_value |-> ctrl.res.val]>> \o Tail(stack)
               /\ ctrl' = binary_after_lhs(frame.term, ctrl.res.val, frame.ctx)
    /\ UNCHANGED <<variant, overflow_checks, program, ctxs, rcs, out, snaps, binders, calls, hasher>>

\* interpreter.rs:162-164: lhs.binary_op(binary, rhs)
eval_binary_rhs ==
    /\ Interpreter
    /\ Returned("binary", "rhs")
    /\ LET frame == Head(stack)
       IN IF ~ctrl.res.ok
          THEN ReturnSame
          ELSE /\ ctrl' = Ret(frame.term, binary_op(frame.l_value, frame.term, ctrl.res.val))
               /\ stack' = Tail(stack)
    /\ UNCHANGED <<variant, overflow_checks, program, ctxs, rcs, out, snaps, binders, calls, hasher>>

\* interp.rs:430-446; a panic of the operator ends the process
interp_eval_binary_rhs ==
    /\ Interp
    /\ Returned("binary", "rhs")
    /\ LET frame == Head(stack)
           result == interp_binary_op(frame.l_value, frame.term, ctrl.res.val)
       IN IF ~ctrl.res.ok
          THEN ReturnSame
          ELSE IF IsPanic(result)
          THEN /\ ctrl' = Aborted
               /\ UNCHANGED stack
          ELSE /\ ctrl' = Ret(frame.term, result)
               /\ stack' = Tail(stack)
    /\ UNCHANGED <<variant, overflow_checks, program, ctxs, rcs, out, snaps, binders, calls, hasher>>

(***************************************************************************)
(* eval_tuple, eval_first, eval_second (the same text in both files).      *)
(***************************************************************************)
eval_tuple ==
    /\ Evaluating({"Tuple"})
    /\ CanPush
    /\ stack' = Push(Frame("tuple", "first", ctrl.term, ctrl.ctx))
    /\ ctrl' = Eval(ctrl.term.first, ctrl.ctx)
    /\ UNCHANGED <<variant, overflow_checks, program, ctxs, rcs, out, snaps, binders, calls, hasher>>

eval_tuple_first ==
    /\ Returned("tuple", "first")
    /\ LET frame == Head(stack)
       IN IF ~ctrl.res.ok
          THEN ReturnSame
          ELSE /\ stack' = <<[k |-> "tuple", stage |-> "second", term |-> frame.term,
                              ctx |-> frame.ctx, first |-> ctrl.res.val]>> \o Tail(stack)
               /\ ctrl' = Eval(frame.term.second, frame.ctx)
    /\ UNCHANGED <<variant, overflow_checks, program, ctxs, rcs, out, snaps, binders, calls, hasher>>

eval_tuple_second ==
    /\ Returned("tuple", "second")
    /\ LET frame == Head(stack)
       IN IF ~ctrl.res.ok
          THEN ReturnSame
          ELSE /\ ctrl' = Ret(frame.term, Ok(VTuple(frame.first, ctrl.res.val)))
               /\ stack' = Tail(stack)
    /\ UNCHANGED <<variant, overflow_checks, program, ctxs, rcs, out, snaps, binders, calls, hasher>>

eval_first ==
    /\ Evaluating({"First"})
    /\ CanPush
    /\ stack' = Push(Frame("first", "value", ctrl.term, ctrl.ctx))
    /\ ctrl' = Eval(ctrl.term.value, ctrl.ctx)
    /\ UNCHANGED <<variant, overflow_checks, program, ctxs, rcs, out, snaps, binders, calls, hasher>>

\* a variant of eval_first_value that hands back the second component
eval_first_value_second ==
    /\ Returned("first", "value")
    /\ LET frame == Head(stack)
       IN /\ ctrl' =
                IF ~ctrl.res.ok THEN Ret(frame.term, ctrl.res)
                ELSE IF ctrl.res.val.tag = "Tuple" THEN Ret(frame.term, Ok(ctrl.res.val.second))
                ELSE Ret(frame.term,
                         Err("invalid expression",
                             <<Lit("cannot use first operation from anything but a tuple")>>,
                             frame.term.location))
          /\ stack' = Tail(stack)
    /\ UNCHANGED <<variant, overflow_checks, program, ctxs, rcs, out, snaps, binders, calls, hasher>>

eval_first_value ==
    /\ Returned("first", "value")
    /\ LET frame == Head(stack)
       IN /\ ctrl' =
                IF ~ctrl.res.ok THEN Ret(frame.term, ctrl.res)
                ELSE IF ctrl.res.val.tag = "Tuple" THEN Ret(frame.term, Ok(ctrl.res.val.first))
                ELSE Ret(frame.term,
                         Err("invalid expression",
                             <<Lit("cannot use first operation from anything but a tuple")>>,
                             frame.term.location))
          /\ stack' = Tail(stack)
    /\ UNCHANGED <<variant, overflow_checks, program, ctxs, rcs, out, snaps, binders, calls, hasher>>

eval_second ==
    /\ Evaluating({"Second"})
    /\ CanPush
    /\ stack' = Push(Frame("second", "value", ctrl.term, ctrl.ctx))
    /\ ctrl' = Eval(ctrl.term.value, ctrl.ctx)
    /\ UNCHANGED <<variant, overflow_checks, program, ctxs, rcs, out, snaps, binders, calls, hasher>>

eval_second_value ==
    /\ Returned("second", "value")
    /\ LET frame == Head(stack)
       IN /\ ctrl' =
                IF ~ctrl.res.ok THEN Ret(frame.term, ctrl.res)
                ELSE IF ctrl.res.val.tag = "Tuple" THEN Ret(frame.term, Ok(ctrl.res.val.second))
                ELSE Ret(frame.term,
                         Err("invalid expression",
                             <<Lit("cannot use second operation from anything but a tuple")>>,
                             frame.term.location))
          /\ stack' = Tail(stack)
    /\ UNCHANGED <<variant, overflow_checks, program, ctxs, rcs, out, snaps, binders, calls, hasher>>

(***************************************************************************)
(* eval_print.                                                             *)
(***************************************************************************)
eval_print ==
    /\ Evaluating({"Print"})
    /\ CanPush
    /\ stack' = Push(Frame("print", "value", ctrl.term, ctrl.ctx))
    /\ ctrl' = Eval(ctrl.term.value, ctrl.ctx)
    /\ UNCHANGED <<variant, overflow_checks, program, ctxs, rcs, out, snaps, binders, calls, hasher>>

\* interpreter.rs:230-233: the printed value is the value of the Print
eval_print_value ==
    /\ Interpreter
    /\ Returned("print", "value")
    /\ IF ~ctrl.res.ok
       THEN /\ ReturnSame
            /\ UNCHANGED out
       ELSE /\ out' = Append(out, Display(ctrl.res.val))
            /\ ctrl' = Ret(Head(stack).term, Ok(ctrl.res.val))
            /\ stack' = Tail(stack)
    /\ UNCHANGED <<variant, overflow_checks, program, ctxs, rcs, snaps, binders, calls, hasher>>

\* interp.rs:504-507: the value of the Print is Unit
interp_eval_print_value ==
    /\ Interp
    /\ Returned("print", "value")
    /\ IF ~ctrl.res.ok
       THEN /\ ReturnSame
            /\ UNCHANGED out
       ELSE /\ out' = Append(out, Display(ctrl.res.val))
            /\ ctrl' = Ret(Head(stack).term, Ok(VUnit))
            /\ stack' = Tail(stack)
    /\ UNCHANGED <<variant, overflow_checks, program, ctxs, rcs, snaps, binders, calls, hasher>>

(***************************************************************************)
(* The programs a run starts from.                                         *)
(***************************************************************************)
\* let fib = fn (n) => if (n < 2) then n else fib(n - 1) + fib(n - 2) in print(fib(10))
P_fib ==
    TLet(1, "fib",
         TFunction(2, <<"n">>,
             TIf(3, TBinary(4, TVar(5, "n"), "Lt", TInt(6, 2)),
                 TVar(7, "n"),
                 TBinary(8,
                     TCall(9, TVar(10, "fib"), <<TBinary(11, TVar(12, "n"), "Sub", TInt(13, 1))>>),
                     "Add",
                     TCall(14, TVar(15, "fib"), <<TBinary(16, TVar(17, "n"), "Sub", TInt(18, 2))>>)))),
         TPrint(19, TCall(20, TVar(21, "fib"), <<TInt(22, 10)>>)))

\* let x = 1 + 2 * 3 in print(x)
P_arith ==
    TLet(1, "x", TBinary(2, TInt(3, 1), "Add", TBinary(4, TInt(5, 2), "Mul", TInt(6, 3))),
         TPrint(7, TVar(8, "x")))

\* let adder = fn (x) => fn (y) => x + y in print(adder(3)(4))
P_adder ==
    TLet(1, "adder",
         TFunction(2, <<"x">>,
             TFunction(3, <<"y">>, TBinary(4, TVar(5, "x"), "Add", TVar(6, "y")))),
         TPrint(7, TCall(8, TCall(9, TVar(10, "adder"), <<TInt(11, 3)>>), <<TInt(12, 4)>>)))

\* let p = (1, (2, 3)) in print(first(second(p)))
P_tuple ==
    TLet(1, "p", TTuple(2, TInt(3, 1), TTuple(4, TInt(5, 2), TInt(6, 3))),
         TPrint(7, TFirst(8, TSecond(9, TVar(10, "p")))))

\* print("a" + 42)
P_concat == TPrint(1, TBinary(2, TStr(3, str_a), "Add", TInt(4, 42)))

\* print(10 / 0)
P_div_zero == TPrint(1, TBinary(2, TInt(3, 10), "Div", TInt(4, 0)))

\* let f = 1 in let f = fn () => f in f()
P_shadowed_self ==
    TLet(1, "f", TInt(2, 1),
         TLet(3, "f", TFunction(4, <<>>, TVar(5, "f")),
              TCall(6, TVar(7, "f"), <<>>)))

\* let f = fn () => y in let y = 4 in f()      (the program of interp.rs:376-382)
P_later_let ==
    TLet(1, "f", TFunction(2, <<>>, TVar(3, "y")),
         TLet(4, "y", TInt(5, 4),
              TCall(6, TVar(7, "f"), <<>>)))

\* let f = fn () => g in let g = f in f()
P_alias ==
    TLet(1, "f", TFunction(2, <<>>, TVar(3, "g")),
         TLet(4, "g", TVar(5, "f"),
              TCall(6, TVar(7, "f"), <<>>)))

\* let f = fn () => x in let g = fn () => let x = 1 in f() in g()
P_caller_local ==
    TLet(1, "f", TFunction(2, <<>>, TVar(3, "x")),
         TLet(4, "g", TFunction(5, <<>>, TLet(6, "x", TInt(7, 1), TCall(8, TVar(9, "f"), <<>>))),
              TCall(10, TVar(11, "g"), <<>>)))

\* (let x = 1 in x) + x
P_let_in_binary ==
    TBinary(1, TLet(2, "x", TInt(3, 1), TVar(4, "x")), "Add", TVar(5, "x"))

\* ((let x = 1 in x), x)
P_let_in_tuple ==
    TTuple(1, TLet(2, "x", TInt(3, 1), TVar(4, "x")), TVar(5, "x"))

\* let x = 1 in ((let x = 2 in x), x)
P_let_shadow_in_tuple ==
    TLet(1, "x", TInt(2, 1),
         TTuple(3, TLet(4, "x", TInt(5, 2), TVar(6, "x")), TVar(7, "x")))

\* (fn (x) => print(x))(1, print(2))
P_too_many_arguments ==
    TCall(1, TFunction(2, <<"x">>, TPrint(3, TVar(4, "x"))),
          <<TInt(5, 1), TPrint(6, TInt(7, 2))>>)

\* (fn (x, y) => print(x))(print(1))
P_too_few_arguments ==
    TCall(1, TFunction(2, <<"x", "y">>, TPrint(3, TVar(4, "x"))),
          <<TPrint(5, TInt(6, 1))>>)

\* let x = 1 in let f = fn (a) => a in let x = 2 in f(x)
P_argument_context ==
    TLet(1, "x", TInt(2, 1),
         TLet(3, "f", TFunction(4, <<"a">>, TVar(5, "a")),
              TLet(6, "x", TInt(7, 2),
                   TCall(8, TVar(9, "f"), <<TVar(10, "x")>>))))

\* (fn (a, b) => print(a + b))(print(1), print(2))
P_argument_order ==
    TCall(1, TFunction(2, <<"a", "b">>, TPrint(3, TBinary(4, TVar(5, "a"), "Add", TVar(6, "b")))),
          <<TPrint(7, TInt(8, 1)), TPrint(9, TInt(10, 2))>>)

\* (fn (a, b, c) => print(a))(print(1), undefined, print(3))
P_argument_error ==
    TCall(1, TFunction(2, <<"a", "b", "c">>, TPrint(3, TVar(4, "a"))),
          <<TPrint(5, TInt(6, 1)), TVar(7, "undefined"), TPrint(8, TInt(9, 3))>>)

\* let loop = fn (n) => loop(n + 1) in loop(0)     (never returns)
P_loop ==
    TLet(1, "loop",
         TFunction(2, <<"n">>, TCall(3, TVar(4, "loop"), <<TBinary(5, TVar(6, "n"), "Add", TInt(7, 1))>>)),
         TCall(8, TVar(9, "loop"), <<TInt(10, 0)>>))

Scenarios ==
    {P_fib, P_arith, P_adder, P_tuple, P_concat, P_div_zero, P_shadowed_self, P_later_let,
     P_alias, P_caller_local, P_let_in_binary, P_let_in_tuple, P_let_shadow_in_tuple,
     P_too_many_arguments, P_too_few_arguments, P_argument_context, P_argument_order,
     P_argument_error, P_loop}

\* operand terms of every kind of value, and one that fails; the term sits at
\* location loc
Operands(loc) ==
    {TInt(loc, i) : i \in (0 - MaxLit)..MaxLit}
    \cup {TStr(loc, str_a), TStr(loc, str_b)}
    \cup {TBool(loc, TRUE), TBool(loc, FALSE)}
    \cup {TFunction(loc, <<>>, TInt(loc + 10, 0))}
    \cup {TTuple(loc, TInt(loc + 10, 1), TInt(loc + 11, 2))}
    \cup {TVar(loc, "undefined")}

\* l op r, for every operator and every pair of operands
BinaryPrograms ==
    {TBinary(1, l, op, r) : l \in Operands(2), op \in BinaryOp, r \in Operands(3)}

\* print(l) op print(r)
PrintedBinaryPrograms ==
    {TBinary(1, TPrint(2, l), op, TPrint(4, r)) :
        l \in {TBool(3, TRUE), TBool(3, FALSE), TInt(3, 0), TVar(3, "undefined")},
        op \in {"And", "Or", "Add", "Eq"},
        r \in {TBool(5, TRUE), TBool(5, FALSE), TInt(5, 0), TVar(5, "undefined")}}

\* if (c) then print("a") else print("b")
IfPrograms ==
    {TIf(1, c, TPrint(3, TStr(4, str_a)), TPrint(5, TStr(6, str_b))) : c \in Operands(2)}

\* c(print(1))
CallPrograms ==
    {TCall(1, c, <<TPrint(3, TInt(4, 1))>>) : c \in Operands(2)}

\* texts whose order depends on a prefix and on a later character
Texts == {<<>>, str_a, str_b, str_a \o str_b, str_b \o str_a}

\* s op t on two texts, for the six comparisons
ComparePrograms ==
    {TBinary(1, TStr(2, s), op, TStr(3, t)) :
        s \in Texts, op \in {"Eq", "Neq", "Lt", "Lte", "Gt", "Gte"}, t \in Texts}

\* (print(1), print(2)), (undefined, print(2)) and (print(1), undefined)
PrintedTuples ==
    {TTuple(2, a, b) : a \in {TPrint(3, TInt(4, 1)), TVar(3, "undefined")},
                       b \in {TPrint(5, TInt(6, 2)), TVar(5, "undefined")}}

\* first(x) and second(x)
ProjectionPrograms ==
    {TFirst(1, x) : x \in Operands(2) \cup PrintedTuples}
    \cup {TSecond(1, x) : x \in Operands(2) \cup PrintedTuples}

\* print(x), print(((1, "a"), fn)) and (print(x), 0)
PrintPrograms ==
    {TPrint(1, x) : x \in Operands(2)}
    \cup {TPrint(1, TTuple(2, TTuple(3, TInt(4, 1), TStr(5, str_a)),
                           TFunction(6, <<>>, TInt(7, 0))))}
    \cup {TTuple(1, TPrint(2, x), TInt(4, 0)) : x \in Operands(3)}

\* terms that hold a print at depth one, under every kind of term
Printing(loc) ==
    LET p == TPrint(loc + 1, TInt(loc + 2, 1))
        q == TInt(loc + 3, 0)
        b == TBool(loc + 3, TRUE)
    IN {p, q,
        TLet(loc, "x", p, q), TLet(loc, "x", q, p),
        TIf(loc, p, q, q), TIf(loc, b, p, q), TIf(loc, b, q, p),
        TBinary(loc, p, "Add", q), TBinary(loc, q, "Add", p),
        TCall(loc, p, <<>>), TCall(loc, q, <<p>>),
        TTuple(loc, p, q), TTuple(loc, q, p),
        TFirst(loc, p), TSecond(loc, p),
        TFunction(loc, <<>>, p), TFunction(loc, <<>>, TFunction(loc + 4, <<>>, p)),
        TFunction(loc, <<>>, TBinary(loc + 4, q, "Add", p))}

\* fn () => body, the function being only created
FunctionPrograms == {TFunction(1, <<>>, body) : body \in Printing(2)}

\* let y = 1 in let f = fn () => y in let a = f() in let y = 2 in f()
P_rebound_between_calls ==
    TLet(1, "y", TInt(2, 1),
      TLet(3, "f", TFunction(4, <<>>, TVar(5, "y")),
        TLet(6, "a", TCall(7, TVar(8, "f"), <<>>),
          TLet(9, "y", TInt(10, 2),
            TCall(11, TVar(12, "f"), <<>>)))))

\* let f = fn () => y in let y = 1 in let a = f() in let y = 2 in f()
P_bound_between_calls ==
    TLet(1, "f", TFunction(2, <<>>, TVar(3, "y")),
      TLet(4, "y", TInt(5, 1),
        TLet(6, "a", TCall(7, TVar(8, "f"), <<>>),
          TLet(9, "y", TInt(10, 2),
            TCall(11, TVar(12, "f"), <<>>)))))

\* let g = 1 in let f = fn () => g in let a = f() in let g = f in f()
P_aliased_between_calls ==
    TLet(1, "g", TInt(2, 1),
      TLet(3, "f", TFunction(4, <<>>, TVar(5, "g")),
        TLet(6, "a", TCall(7, TVar(8, "f"), <<>>),
          TLet(9, "g", TVar(10, "f"),
            TCall(11, TVar(12, "f"), <<>>)))))

\* let f = fn (x) => x + 1 in (f(1), f(1))
P_same_call_twice ==
    TLet(1, "f", TFunction(2, <<"x">>, TBinary(3, TVar(4, "x"), "Add", TInt(5, 1))),
      TTuple(6, TCall(7, TVar(8, "f"), <<TInt(9, 1)>>),
                TCall(10, TVar(11, "f"), <<TInt(12, 1)>>)))

RepeatedCallPrograms ==
    {P_rebound_between_calls, P_bound_between_calls, P_aliased_between_calls,
     P_same_call_twice}

Programs ==
    Scenarios \cup RepeatedCallPrograms \cup BinaryPrograms \cup PrintedBinaryPrograms \cup IfPrograms \cup CallPrograms
    \cup ComparePrograms \cup ProjectionPrograms \cup PrintPrograms \cup FunctionPrograms

(***************************************************************************)
(* The specification.                                                      *)
(***************************************************************************)
\* main.rs:30-33 and interp.rs eval_file: an empty context, nothing printed
Init ==
    /\ variant \in {"interpreter", "interp"}
    /\ overflow_checks \in BOOLEAN
    /\ program \in Programs
    /\ ctrl = Eval(program, IF variant = "interpreter" THEN 1 ELSE EmptyContext)
    /\ stack = <<>>
    /\ ctxs = IF variant = "interpreter" THEN <<EmptyContext>> ELSE <<>>
    /\ rcs = <<>>
    /\ out = <<>>
    /\ snaps = <<>>
    /\ binders = <<>>
    /\ calls = {}
    /\ hasher = NotHashing

Next ==
    \/ eval_literal
    \/ eval_var
    \/ eval_function
    \/ interp_eval_function
    \/ eval_let
    \/ eval_let_bind
    \/ interp_eval_let_bind
    \/ eval_let_return
    \/ eval_call
    \/ eval_call_callee
    \/ eval_call_argument
    \/ interp_eval_call_callee
    \/ interp_eval_call_argument
    \/ eval_call_return
    \/ eval_if
    \/ eval_if_condition
    \/ eval_if_return
    \/ eval_binary
    \/ eval_binary_lhs
    \/ eval_binary_rhs
    \/ interp_eval_binary_rhs
    \/ eval_tuple
    \/ eval_tuple_first
    \/ eval_tuple_second
    \/ eval_first
    \/ eval_first_value
    \/ eval_second
    \/ eval_second_value
    \/ eval_print
    \/ eval_print_value
    \/ interp_eval_print_value

Spec == Init /\ [][Next]_vars

(***************************************************************************)
(* Integer arithmetic at the ends of the 32-bit range: a run evaluates one *)
(* arithmetic operation on two integer literals.                           *)
(***************************************************************************)
Boundary ==
    {I32Min, I32Min + 1, 0 - 2, 0 - 1, 0, 1, 2, I32Max - 1, I32Max}

ArithmeticOp == {"Add", "Sub", "Mul", "Div", "Rem"}

IntegerPrograms ==
    {TBinary(1, TInt(2, a), op, TInt(3, b)) :
        a \in Boundary, op \in ArithmeticOp, b \in Boundary}

IntegerInit ==
    /\ variant \in {"interpreter", "interp"}
    /\ overflow_checks \in BOOLEAN
    /\ program \in IntegerPrograms
    /\ ctrl = Eval(program, IF variant = "interpreter" THEN 1 ELSE EmptyContext)
    /\ stack = <<>>
    /\ ctxs = IF variant = "interpreter" THEN <<EmptyContext>> ELSE <<>>
    /\ rcs = <<>>
    /\ out = <<>>
    /\ snaps = <<>>
    /\ binders = <<>>
    /\ calls = {}
    /\ hasher = NotHashing

IntegerNext ==
    \/ eval_literal
    \/ eval_binary
    \/ eval_binary_lhs
    \/ eval_binary_rhs
    \/ interp_eval_binary_rhs

IntegerSpec == IntegerInit /\ [][IntegerNext]_vars

(***************************************************************************)
(* The arguments of a call are hashed one after the other: by Value::hash  *)
(* under interpreter.rs, by cache_key under interp.rs.                     *)
(***************************************************************************)
\* interpreter.rs:45-55: a closure panics, any other value feeds its text
Value_hash ==
    /\ Interpreter
    /\ hasher.status = "run"
    /\ hasher.i <= Len(hasher.arguments)
    /\ LET value == hasher.arguments[hasher.i]
       IN IF value.tag = "Closure"
          THEN hasher' = Hashing(hasher.arguments, hasher.i, hasher.fed, "panic")
          ELSE hasher' = Hashing(hasher.arguments, hasher.i + 1,
                                 Append(hasher.fed, hash_text(value)), "run")
    /\ UNCHANGED <<variant, overflow_checks, program, ctrl, stack, ctxs, rcs, out, snaps,
                   binders, calls>>

\* interp.rs:347-358: one turn of the map that collect() drives: a closure
\* ends it with None; any other value is handed to Value::hash, and that
\* (interp.rs:42, `value => value.hash(state)`) calls itself and never returns
cache_key_argument ==
    /\ Interp
    /\ hasher.status = "run"
    /\ hasher.i <= Len(hasher.arguments)
    /\ LET value == hasher.arguments[hasher.i]
       IN IF value.tag = "Closure"
          THEN hasher' = Hashing(hasher.arguments, hasher.i, hasher.fed, "None")
          ELSE hasher' = Hashing(hasher.arguments, hasher.i, hasher.fed, "never returns")
    /\ UNCHANGED <<variant, overflow_checks, program, ctrl, stack, ctxs, rcs, out, snaps,
                   binders, calls>>

\* interp.rs:360: Some((body, arguments)) once every argument is mapped
cache_key_return ==
    /\ Interp
    /\ hasher.status = "run"
    /\ hasher.i > Len(hasher.arguments)
    /\ hasher' = Hashing(hasher.arguments, hasher.i, hasher.fed, "Some")
    /\ UNCHANGED <<variant, overflow_checks, program, ctrl, stack, ctxs, rcs, out, snaps,
                   binders, calls>>

\* fn (x) => x, as each file holds it
HashClosure ==
    IF Interpreter
    THEN [tag |-> "Closure", parameters |-> <<"x">>, body |-> TVar(2, "x"), context |-> 1]
    ELSE [tag |-> "Closure", parameters |-> <<"x">>, body |-> TVar(2, "x"),
          context |-> EmptyContext, is_pure |-> TRUE]

\* values of every tag, with tuples of them and tuples nested once more
HashAtoms == <<VInt(1), VInt(2), VStr(IntToString(1)), VStr(str_a), VBool(TRUE)>>
NestedTuples == <<VTuple(VTuple(VInt(1), VInt(2)), VInt(2)),
                  VTuple(VInt(1), VTuple(VInt(2), VInt(2))),
                  VTuple(VStr(str_a), HashClosure)>>
HashValues ==
    HashAtoms
    \o [k \in 1..(Len(HashAtoms) * Len(HashAtoms)) |->
           VTuple(HashAtoms[((k - 1) \div Len(HashAtoms)) + 1],
                  HashAtoms[((k - 1) % Len(HashAtoms)) + 1])]
    \o NestedTuples
    \o <<HashClosure>>

\* the argument lists of a call: none, one or two of these values, each named
\* by its place in HashValues
HashArguments ==
    {<<>>} \cup {<<k>> : k \in 1..Len(HashValues)}
           \cup {<<k, l>> : k, l \in 1..Len(HashValues)}

ArgumentsAt(places) == [i \in 1..Len(places) |-> HashValues[places[i]]]

\* the body of the closure that is called
HashBody == TVar(2, "x")

HashInit ==
    /\ variant \in {"interpreter", "interp"}
    /\ overflow_checks \in BOOLEAN
    /\ program = HashBody
    /\ ctrl = Eval(program, IF variant = "interpreter" THEN 1 ELSE EmptyContext)
    /\ stack = <<>>
    /\ ctxs = IF variant = "interpreter" THEN <<EmptyContext>> ELSE <<>>
    /\ rcs = IF variant = "interpreter" THEN <<EmptyContext>> ELSE <<>>
    /\ out = <<>>
    /\ snaps = <<>>
    /\ binders = <<>>
    /\ calls = {}
    /\ \E places \in HashArguments : hasher = Hashing(ArgumentsAt(places), 1, <<>>, "run")

HashNext ==
    \/ Value_hash
    \/ cache_key_argument
    \/ cache_key_return

HashSpec == HashInit /\ [][HashNext]_vars

\* the top-level eval has returned
Finished == ctrl.mode = "ret" /\ stack = <<>>

(***************************************************************************)
(* Notions the properties share.                                           *)
(***************************************************************************)
Range(seq) == {seq[i] : i \in 1..Len(seq)}

\* the body of a closure is about to be evaluated: the innermost handler is
\* a call that has built the frame context, and nothing of the body has run
AtCallEntry ==
    /\ ctrl.mode = "eval"
    /\ stack # <<>>
    /\ Head(stack).k = "call"
    /\ Head(stack).stage = "body"

\* the term whose evaluation the handler at position p of the stack waits for
SubTerm(p) == IF p = 1 THEN ctrl.term ELSE stack[p - 1].term

\* the content of a closure's context when the Function term was evaluated
Snapshot(closure) == IF Interpreter THEN snaps[closure.context] ELSE closure.context

\* the snapshot, plus the closure under the name of the Let that bound it
SnapshotWithBinder(closure) ==
    IF HasBinder(closure)
    THEN Insert(Snapshot(closure), BinderOf(closure), closure)
    ELSE Snapshot(closure)

\* context extended with parameters[i] -> arguments[i] for the arguments given
RECURSIVE WithParameters(_, _, _)
WithParameters(context, parameters, arguments) ==
    IF parameters = <<>> \/ arguments = <<>> THEN context
    ELSE WithParameters(Insert(context, Head(parameters), Head(arguments)),
                        Tail(parameters), Tail(arguments))

ErrorIs(res, message, location) ==
    /\ ~res.ok
    /\ ~IsPanic(res)
    /\ res.err.message = message
    /\ res.err.location = location

(***************************************************************************)
(* C1: for a Let(n, v, body) whose v evaluates to a closure c that has no   *)
(* parameter n, every call of c made while body is evaluated starts the    *)
(* closure body with n bound to c itself; fib(10) prints 55.               *)
(***************************************************************************)
C1_SelfReference ==
    /\ AtCallEntry =>
         \A p \in 1..Len(stack) :
            (/\ stack[p].k = "let"
             /\ stack[p].stage = "next"
             /\ stack[p].bound.tag = "Closure"
             /\ ClosureId(stack[p].bound) = ClosureId(Head(stack).closure)
             /\ stack[p].term.name \notin Range(Head(stack).closure.parameters))
            => /\ Binds(Ctx(ctrl.ctx), stack[p].term.name)
               /\ Ctx(ctrl.ctx)[stack[p].term.name] = Head(stack).closure
    /\ (Finished /\ program = P_fib) => out = <<IntToString(55)>>

(***************************************************************************)
(* C2: lexical capture.  When the body of a closure starts, the bindings   *)
(* it sees are exactly the snapshot taken when the Function term was       *)
(* evaluated, plus the closure under the name of the Let that bound it,    *)
(* plus the parameters.                                                    *)
(***************************************************************************)
C2_LexicalCapture ==
    AtCallEntry =>
        Ctx(ctrl.ctx) = WithParameters(SnapshotWithBinder(Head(stack).closure),
                                       Head(stack).closure.parameters,
                                       Head(stack).arguments)

(***************************************************************************)
(* C3: a Let extends the environment for its body only.  When the Let      *)
(* returns, the context of the enclosing expression binds the Let's name   *)
(* as it did before the Let was evaluated, or still does not bind it.      *)
(***************************************************************************)
C3_LetIsScoped ==
    Returned("let", "next") =>
        LET frame == Head(stack)
            name == frame.term.name
        IN /\ Binds(Ctx(frame.ctx), name) = Binds(frame.before, name)
           /\ Binds(frame.before, name) => Ctx(frame.ctx)[name] = frame.before[name]

(***************************************************************************)
(* C4: a Call with k arguments of a closure with m parameters, m # k,      *)
(* never evaluates the closure body and returns the error "invalid         *)
(* arguments" at the location of the Call.                                 *)
(***************************************************************************)
\* the innermost handler is a call whose callee is known to be a closure
ClosureCall ==
    /\ stack # <<>>
    /\ Head(stack).k = "call"
    /\ \/ Head(stack).stage \in {"arg", "body"}
       \/ /\ Head(stack).stage = "callee"
          /\ ctrl.mode = "ret"
          /\ ctrl.res.ok
          /\ ctrl.res.val.tag = "Closure"

AppliedClosure == IF Head(stack).stage = "callee" THEN ctrl.res.val ELSE Head(stack).closure

ArityMismatch ==
    /\ ClosureCall
    /\ Len(AppliedClosure.parameters) # Len(Head(stack).term.arguments)

C4_BodyNeedsArity == ~(AtCallEntry /\ ArityMismatch)

C4_ArityStep ==
    (ArityMismatch /\ stack' = Tail(stack))
    => /\ ctrl'.mode = "ret"
       /\ ErrorIs(ctrl'.res, "invalid arguments", Head(stack).term.location)

C4_InvalidArguments == [] C4_BodyNeedsArity /\ [][C4_ArityStep]_vars

(***************************************************************************)
(* C5: the arguments of a Call are evaluated left to right, each in the    *)
(* context of the caller, all before the body starts; the first argument   *)
(* that fails ends the call with its error.                                *)
(***************************************************************************)
\* an argument is about to be evaluated
AtArgument ==
    /\ ctrl.mode = "eval"
    /\ stack # <<>>
    /\ Head(stack).k = "call"
    /\ Head(stack).stage = "arg"

C5_ArgumentState ==
    /\ AtArgument =>
        /\ ctrl.term = Head(stack).term.arguments[Head(stack).i]
        /\ Len(Head(stack).arguments) = Head(stack).i - 1
        /\ Ctx(ctrl.ctx) = Ctx(Head(stack).ctx)
    /\ AtCallEntry => Len(Head(stack).arguments) = Len(Head(stack).term.arguments)

C5_ArgumentStep ==
    (Returned("call", "arg") /\ ~ctrl.res.ok)
    => /\ ctrl' = Ret(Head(stack).term, ctrl.res)
       /\ stack' = Tail(stack)
       /\ out' = out

C5_ArgumentsInCallerContext == [] C5_ArgumentState /\ [][C5_ArgumentStep]_vars

(***************************************************************************)
(* C6: a Call whose callee evaluates to a value that is not a closure      *)
(* returns at once, with no argument evaluated, the error "invalid         *)
(* function call"; the error carries the location of the Call term.        *)
(***************************************************************************)
\* the callee of the innermost call has evaluated to a value that is no closure
NonClosureCallee ==
    /\ Returned("call", "callee")
    /\ ctrl.res.ok
    /\ ctrl.res.val.tag # "Closure"

C6_CallStep(location) ==
    NonClosureCallee
    => /\ ctrl'.mode = "ret"
       /\ ctrl'.term = Head(stack).term
       /\ ErrorIs(ctrl'.res, "invalid function call", location)
       /\ stack' = Tail(stack)
       /\ out' = out

C6_InvalidFunctionCallAtCall == [][C6_CallStep(Head(stack).term.location)]_vars

\* C6 as the specification words it: the error carries the location of the
\* callee term
C6_InvalidFunctionCallAtCallee == [][C6_CallStep(Head(stack).term.callee.location)]_vars

\* a tuple was called with an argument that prints: the call has failed and
\* nothing was printed
C6_Witness ==
    /\ ctrl.mode = "ret"
    /\ ctrl.term.kind = "Call"
    /\ ctrl.term.callee.kind = "Tuple"
    /\ ctrl.term.arguments # <<>>
    /\ ErrorIs(ctrl.res, "invalid function call", ctrl.term.location)
    /\ out = <<>>

(***************************************************************************)
(* C7: an If evaluates its condition first; on true it evaluates then and  *)
(* returns its result, otherwise being never evaluated; on false it        *)
(* evaluates otherwise and returns its result, then being never evaluated; *)
(* on a value that is no boolean it returns "invalid if condition" at the  *)
(* location of the condition and evaluates neither branch.                 *)
(***************************************************************************)
\* the handler at position p of the stack waits for the evaluation of term
SubTermIs(p, term) ==
    IF p = 1 THEN ctrl.mode = "panic" \/ ctrl.term = term ELSE stack[p - 1].term = term

C7_IfState ==
    /\ \A p \in 1..Len(stack) :
          stack[p].k = "if" =>
             /\ stack[p].stage = "condition" => SubTermIs(p, stack[p].term.condition)
             /\ stack[p].stage = "branch" =>
                   SubTermIs(p, IF stack[p].condition THEN stack[p].term.then
                                ELSE stack[p].term.otherwise)
    /\ (Finished /\ program \in IfPrograms) =>
          /\ program.condition.kind = "Bool" =>
                /\ ctrl.res.ok
                /\ out = <<IF program.condition.value THEN str_a ELSE str_b>>
          /\ program.condition.kind \in {"Int", "Str", "Function", "Tuple"} =>
                /\ ErrorIs(ctrl.res, "invalid if condition", program.condition.location)
                /\ out = <<>>

C7_IfStep ==
    /\ Evaluating({"If"}) => ctrl' = Eval(ctrl.term.condition, ctrl.ctx)
    /\ (Returned("if", "condition") /\ ctrl.res.ok) =>
          IF ctrl.res.val.tag = "Bool"
          THEN /\ ctrl' = Eval(IF ctrl.res.val.v THEN Head(stack).term.then
                               ELSE Head(stack).term.otherwise, Head(stack).ctx)
               /\ Len(stack') = Len(stack)
               /\ out' = out
          ELSE /\ ctrl'.mode = "ret"
               /\ ErrorIs(ctrl'.res, "invalid if condition",
                          Head(stack).term.condition.location)
               /\ stack' = Tail(stack)
               /\ out' = out
    /\ Returned("if", "branch") =>
          /\ ctrl' = Ret(Head(stack).term, ctrl.res)
          /\ stack' = Tail(stack)
          /\ out' = out

C7_IfEvaluatesOneBranch == [] C7_IfState /\ [][C7_IfStep]_vars

\* if (false) then print("a") else print("b") has finished and printed b alone
C7_Witness ==
    /\ Finished
    /\ program \in IfPrograms
    /\ program.condition = TBool(2, FALSE)
    /\ ctrl.res.ok
    /\ out = <<str_b>>

(***************************************************************************)
(* C8: a Binary evaluates its left operand, then its right operand, and    *)
(* only then applies the operator, And and Or included; the right operand  *)
(* is skipped only when the left operand failed.                           *)
(***************************************************************************)
\* what print(l) op print(r) must have printed when it ends
PrintedByOperands(binary) ==
    IF binary.lhs.value.kind = "Var" THEN <<>>
    ELSE IF binary.rhs.value.kind = "Var"
    THEN <<Display(literal_value(binary.lhs.value))>>
    ELSE <<Display(literal_value(binary.lhs.value)), Display(literal_value(binary.rhs.value))>>

C8_BinaryState ==
    /\ \A p \in 1..Len(stack) :
          stack[p].k = "binary" =>
             /\ stack[p].stage = "lhs" => SubTermIs(p, stack[p].term.lhs)
             /\ stack[p].stage = "rhs" => SubTermIs(p, stack[p].term.rhs)
    /\ (Finished /\ program \in PrintedBinaryPrograms) =>
          /\ out = PrintedByOperands(program)
          /\ program.lhs.value.kind = "Var" =>
                (~ctrl.res.ok /\ ctrl.res.err.location = program.lhs.value.location)
          /\ (program.lhs.value.kind # "Var" /\ program.rhs.value.kind = "Var") =>
                (~ctrl.res.ok /\ ctrl.res.err.location = program.rhs.value.location)

C8_BinaryStep ==
    /\ Evaluating({"Binary"}) => ctrl' = Eval(ctrl.term.lhs, ctrl.ctx)
    /\ Returned("binary", "lhs") =>
          IF ctrl.res.ok
          THEN /\ ctrl' = Eval(Head(stack).term.rhs, Head(stack).ctx)
               /\ Head(stack').stage = "rhs"
               /\ Head(stack').l_value = ctrl.res.val
               /\ out' = out
          ELSE /\ ctrl' = Ret(Head(stack).term, ctrl.res)
               /\ stack' = Tail(stack)
               /\ out' = out
    /\ Returned("binary", "rhs") =>
          IF ctrl.res.ok
          THEN \/ ctrl'.mode = "panic"
               \/ /\ ctrl'.mode = "ret"
                  /\ ctrl'.term = Head(stack).term
                  /\ stack' = Tail(stack)
          ELSE /\ ctrl' = Ret(Head(stack).term, ctrl.res)
               /\ stack' = Tail(stack)

C8_BinaryEvaluatesBothOperands == [] C8_BinaryState /\ [][C8_BinaryStep]_vars

\* print(false) && print(true) has finished and printed both operands
C8_Witness ==
    /\ Finished
    /\ program = TBinary(1, TPrint(2, TBool(3, FALSE)), "And", TPrint(4, TBool(5, TRUE)))
    /\ out = <<str_false, str_true>>

(***************************************************************************)
(* C9: Div and Rem of any Int by Int 0 return the error "division by zero" *)
(* at the location of the left operand; they never return Ok and never     *)
(* abort the evaluator.                                                    *)
(***************************************************************************)
\* the operator of the innermost Binary is about to be applied to two Ints
AtIntDispatch(ops) ==
    /\ Returned("binary", "rhs")
    /\ ctrl.res.ok
    /\ Head(stack).term.op \in ops
    /\ BothInt(Head(stack).l_value, ctrl.res.val)

C9_DivisionStep ==
    (AtIntDispatch({"Div", "Rem"}) /\ ctrl.res.val.v = 0)
    => /\ ctrl'.mode = "ret"
       /\ ErrorIs(ctrl'.res, "division by zero", Head(stack).term.lhs.location)

C9_DivisionByZero == [][C9_DivisionStep]_vars

(***************************************************************************)
(* C10: on Int operands a and b (b # 0 for Div and Rem) Add returns a + b, *)
(* Sub a - b, Mul a * b, Div the quotient truncated toward zero and Rem    *)
(* the remainder r with a = b * trunc(a / b) + r.                          *)
(***************************************************************************)
\* the integer q nearest to zero with |a| - |b| < |q| * |b| <= |a|, signed as a / b
Quotient(a, b) ==
    CHOOSE q \in (0 - Abs(a))..Abs(a) :
        /\ Abs(q) * Abs(b) <= Abs(a)
        /\ Abs(a) < (Abs(q) + 1) * Abs(b)
        /\ q > 0 => (a > 0) = (b > 0)
        /\ q < 0 => (a > 0) # (b > 0)

Arithmetic(op, a, b) ==
    CASE op = "Add" -> a + b
      [] op = "Sub" -> a - b
      [] op = "Mul" -> a * b
      [] op = "Div" -> Quotient(a, b)
      [] op = "Rem" -> a - b * Quotient(a, b)

C10_ArithmeticStep ==
    (/\ AtIntDispatch({"Add", "Sub", "Mul", "Div", "Rem"})
     /\ Head(stack).term.op \in {"Div", "Rem"} => ctrl.res.val.v # 0)
    => /\ ctrl'.mode = "ret"
       /\ ctrl'.res = Ok(VInt(Arithmetic(Head(stack).term.op, Head(stack).l_value.v,
                                         ctrl.res.val.v)))

C10_IntegerArithmetic == [][C10_ArithmeticStep]_vars

(***************************************************************************)
(* C11: Add on (Str s, Str t) returns Str(s followed by t); on (Str s,     *)
(* Int n) Str(s followed by the decimal rendering of n); on (Int n, Str s) *)
(* Str(the decimal rendering of n followed by s); on every other pair that *)
(* is not (Int, Int) it fails.                                             *)
(***************************************************************************)
\* the operator of the innermost Binary is about to be applied
AtDispatch(ops) ==
    /\ Returned("binary", "rhs")
    /\ ctrl.res.ok
    /\ Head(stack).term.op \in ops

\* the two operand values of that application
LeftValue == Head(stack).l_value
RightValue == ctrl.res.val

\* the text of a Str or Int operand
TextOf(value) == IF value.tag = "Str" THEN value.v ELSE IntToString(value.v)

C11_AddStep ==
    (AtDispatch({"Add"}) /\ ~BothInt(LeftValue, RightValue))
    => /\ ctrl'.mode = "ret"
       /\ IF {LeftValue.tag, RightValue.tag} \subseteq {"Str", "Int"}
          THEN ctrl'.res = Ok(VStr(TextOf(LeftValue) \o TextOf(RightValue)))
          ELSE ~ctrl'.res.ok

C11_AddConcatenates == [][C11_AddStep]_vars

(***************************************************************************)
(* C12: on two operands of the same tag among Int, Str, Bool, Eq returns   *)
(* Bool(true) exactly when the payloads are equal and Neq its negation;    *)
(* Lt, Lte, Gt, Gte return the Bool of the numeric order on Int, of the    *)
(* lexicographic order on Str and of false < true on Bool, so that Lt is   *)
(* the negation of Gte and Gt the negation of Lte.                         *)
(***************************************************************************)
Comparisons == {"Eq", "Neq", "Lt", "Lte", "Gt", "Gte"}

\* s comes before t: they agree on the first k characters and then s ends
\* while t goes on, or s goes on with a smaller character
LexLess(s, t) ==
    \E k \in 0..Len(s) :
        /\ k <= Len(t)
        /\ \A i \in 1..k : s[i] = t[i]
        /\ k < Len(t)
        /\ k < Len(s) => s[k + 1] < t[k + 1]

Less(l, r) ==
    CASE l.tag = "Int" -> l.v < r.v
      [] l.tag = "Str" -> LexLess(l.v, r.v)
      [] l.tag = "Bool" -> l.v = FALSE /\ r.v = TRUE

Compared(op, l, r) ==
    CASE op = "Eq" -> l.v = r.v
      [] op = "Neq" -> l.v # r.v
      [] op = "Lt" -> Less(l, r)
      [] op = "Gte" -> ~Less(l, r)
      [] op = "Gt" -> Less(r, l)
      [] op = "Lte" -> ~Less(r, l)

Comparable(l, r) == l.tag = r.tag /\ l.tag \in {"Int", "Str", "Bool"}

C12_CompareStep ==
    (AtDispatch(Comparisons) /\ Comparable(LeftValue, RightValue))
    => /\ ctrl'.mode = "ret"
       /\ ctrl'.res = Ok(VBool(Compared(Head(stack).term.op, LeftValue, RightValue)))

C12_Comparisons == [][C12_CompareStep]_vars

\* "ab" >= "ab" has returned true
C12_Witness ==
    /\ Finished
    /\ program = TBinary(1, TStr(2, str_a \o str_b), "Gte", TStr(3, str_a \o str_b))
    /\ ctrl.res = Ok(VBool(TRUE))

(***************************************************************************)
(* C13: each of Eq, Neq, Lt, Lte, Gt, Gte fails with the message "invalid  *)
(* comparison" on every operand pair that is not (Int, Int), (Str, Str) or *)
(* (Bool, Bool): whenever an operand is a closure or a tuple, and on every *)
(* pair of different tags.                                                 *)
(***************************************************************************)
C13_ComparisonErrorStep ==
    (AtDispatch(Comparisons) /\ ~Comparable(LeftValue, RightValue))
    => /\ ctrl'.mode = "ret"
       /\ ~ctrl'.res.ok
       /\ ctrl'.res.err.message = "invalid comparison"

C13_InvalidComparison == [][C13_ComparisonErrorStep]_vars

\* the comparison of two closures has failed
C13_Witness ==
    /\ Finished
    /\ program.kind = "Binary"
    /\ program.op \in Comparisons
    /\ program.lhs.kind = "Function"
    /\ program.rhs.kind = "Function"
    /\ ~ctrl.res.ok
    /\ ctrl.res.err.message = "invalid comparison"

(***************************************************************************)
(* C14: And on (Bool a, Bool b) returns Bool(a and b) and Or returns       *)
(* Bool(a or b); on every other operand pair And and Or fail with the      *)
(* message "invalid binary operation".                                     *)
(***************************************************************************)
C14_BooleanStep ==
    AtDispatch({"And", "Or"})
    => /\ ctrl'.mode = "ret"
       /\ IF BothBool(LeftValue, RightValue)
          THEN ctrl'.res = Ok(VBool(IF Head(stack).term.op = "And"
                                    THEN LeftValue.v /\ RightValue.v
                                    ELSE LeftValue.v \/ RightValue.v))
          ELSE /\ ~ctrl'.res.ok
               /\ ctrl'.res.err.message = "invalid binary operation"

C14_AndOr == [][C14_BooleanStep]_vars

(***************************************************************************)
(* C15: every RuntimeError has a message that is one of the nine kind      *)
(* labels, and an arithmetic operator (Add, Sub, Mul, Div, Rem) applied to *)
(* a pair of types it does not support fails with "invalid numeric         *)
(* operation".                                                             *)
(***************************************************************************)
KindLabels ==
    {"unbound variable", "invalid function call", "invalid arguments", "invalid if condition",
     "invalid comparison", "invalid numeric operation", "invalid binary operation",
     "division by zero", "invalid expression"}

\* the pairs of types an arithmetic operator has a result for
Supported(op, l, r) ==
    IF op = "Add" THEN {l.tag, r.tag} \subseteq {"Int", "Str"} ELSE BothInt(l, r)

C15_Labelled ==
    (ctrl.mode = "ret" /\ ~ctrl.res.ok) => ctrl.res.err.message \in KindLabels

C15_ArithmeticStep ==
    (/\ AtDispatch({"Add", "Sub", "Mul", "Div", "Rem"})
     /\ ~Supported(Head(stack).term.op, LeftValue, RightValue))
    => /\ ctrl'.mode = "ret"
       /\ ~ctrl'.res.ok
       /\ ctrl'.res.err.message = "invalid numeric operation"

C15_ErrorKinds == [] C15_Labelled /\ [][C15_ArithmeticStep]_vars

(***************************************************************************)
(* C16: every error the operator engine returns for Binary(l, op, r), for  *)
(* every operator and every failing operand pair, carries the location of  *)
(* the left operand term l, not that of r nor that of the Binary.          *)
(***************************************************************************)
C16_LocationStep ==
    (AtDispatch(BinaryOp) /\ ctrl'.mode = "ret" /\ ~ctrl'.res.ok)
    => ctrl'.res.err.location = Head(stack).term.lhs.location

C16_LeftOperandLocation == [][C16_LocationStep]_vars

\* true - 1 has failed in the operator, with the location of `true`
C16_Witness ==
    /\ Finished
    /\ program = TBinary(1, TBool(2, TRUE), "Sub", TInt(3, 1))
    /\ ~ctrl.res.ok
    /\ ctrl.res.err.location = 2

(***************************************************************************)
(* C17: for every Var(n) and environment E, if E binds n the evaluation    *)
(* returns the value E binds to n and leaves E unchanged; if E does not    *)
(* bind n it fails with the message "unbound variable" and the location of *)
(* the Var term.                                                           *)
(***************************************************************************)
C17_VarStep ==
    Evaluating({"Var"})
    => /\ ctrl'.mode = "ret"
       /\ IF Binds(Ctx(ctrl.ctx), ctrl.term.text)
          THEN /\ ctrl'.res = Ok(Ctx(ctrl.ctx)[ctrl.term.text])
               /\ UNCHANGED <<ctxs, rcs>>
          ELSE ErrorIs(ctrl'.res, "unbound variable", ctrl.term.location)

C17_VarLookup == [][C17_VarStep]_vars

(***************************************************************************)
(* C18: Print(x) evaluates x once, appends exactly one line to the output, *)
(* the display form of x's value (a tuple as "(first, second)",            *)
(* recursively, a closure as "[closure]"), and returns that same value; if *)
(* x fails nothing is written.                                             *)
(***************************************************************************)
\* print(((1, "a"), fn)) has written the line ((1, a), [closure])
C18_PrintState ==
    (/\ Finished
     /\ program.kind = "Print"
     /\ program.value.kind = "Tuple"
     /\ program.value.first.kind = "Tuple")
    => out = << <<40, 40, 49, 44, 32, 97, 41, 44, 32,
                  91, 99, 108, 111, 115, 117, 114, 101, 93, 41>> >>

C18_PrintStep ==
    /\ Evaluating({"Print"}) =>
          /\ ctrl' = Eval(ctrl.term.value, ctrl.ctx)
          /\ out' = out
    /\ Returned("print", "value") =>
          /\ stack' = Tail(stack)
          /\ IF ctrl.res.ok
             THEN /\ out' = Append(out, Display(ctrl.res.val))
                  /\ ctrl' = Ret(Head(stack).term, Ok(ctrl.res.val))
             ELSE /\ out' = out
                  /\ ctrl' = Ret(Head(stack).term, ctrl.res)

C18_PrintIsTransparent == [] C18_PrintState /\ [][C18_PrintStep]_vars

(***************************************************************************)
(* C19: First(Tuple(a, b)) returns the value of a and Second(Tuple(a, b))  *)
(* the value of b, a and b being each evaluated once and a before b; First *)
(* or Second of a value that is no tuple fails with "invalid expression"   *)
(* at the location of the First or Second term.                            *)
(***************************************************************************)
C19_TupleState ==
    /\ \A p \in 1..Len(stack) :
          /\ (stack[p].k = "tuple" /\ stack[p].stage = "first") =>
                SubTermIs(p, stack[p].term.first)
          /\ (stack[p].k = "tuple" /\ stack[p].stage = "second") =>
                SubTermIs(p, stack[p].term.second)
          /\ stack[p].k \in {"first", "second"} => SubTermIs(p, stack[p].term.value)
    /\ (Finished /\ program \in ProjectionPrograms) =>
          /\ program.value = TTuple(2, TInt(12, 1), TInt(13, 2)) =>
                ctrl.res = Ok(VInt(IF program.kind = "First" THEN 1 ELSE 2))
          /\ program.value = TTuple(2, TPrint(3, TInt(4, 1)), TPrint(5, TInt(6, 2))) =>
                (ctrl.res.ok /\ out = << <<49>>, <<50>> >>)
          /\ program.value = TTuple(2, TPrint(3, TInt(4, 1)), TVar(5, "undefined")) =>
                (~ctrl.res.ok /\ out = << <<49>> >>)
          /\ (program.value.kind = "Tuple" /\ program.value.first.kind = "Var") =>
                (~ctrl.res.ok /\ out = <<>>)

C19_TupleStep ==
    /\ Evaluating({"Tuple"}) => ctrl' = Eval(ctrl.term.first, ctrl.ctx)
    /\ Evaluating({"First", "Second"}) => ctrl' = Eval(ctrl.term.value, ctrl.ctx)
    /\ Returned("tuple", "first") =>
          IF ctrl.res.ok
          THEN /\ ctrl' = Eval(Head(stack).term.second, Head(stack).ctx)
               /\ Head(stack').stage = "second"
               /\ Head(stack').first = ctrl.res.val
               /\ Tail(stack') = Tail(stack)
          ELSE ctrl' = Ret(Head(stack).term, ctrl.res) /\ stack' = Tail(stack)
    /\ Returned("tuple", "second") =>
          /\ stack' = Tail(stack)
          /\ ctrl'.mode = "ret"
          /\ IF ctrl.res.ok
             THEN /\ ctrl'.res.ok
                  /\ ctrl'.res.val.tag = "Tuple"
                  /\ ctrl'.res.val.first = Head(stack).first
                  /\ ctrl'.res.val.second = ctrl.res.val
             ELSE ctrl'.res = ctrl.res
    /\ \A k \in {"first", "second"} :
          Returned(k, "value") =>
             /\ stack' = Tail(stack)
             /\ out' = out
             /\ ctrl'.mode = "ret"
             /\ IF ~ctrl.res.ok THEN ctrl'.res = ctrl.res
                ELSE IF ctrl.res.val.tag = "Tuple"
                THEN ctrl'.res = Ok(IF k = "first" THEN ctrl.res.val.first
                                    ELSE ctrl.res.val.second)
                ELSE ErrorIs(ctrl'.res, "invalid expression", Head(stack).term.location)

C19_Projections == [] C19_TupleState /\ [][C19_TupleStep]_vars

\* first((print(1), print(2))) has returned after the lines 1 and 2
C19_Witness ==
    /\ Finished
    /\ program = TFirst(1, TTuple(2, TPrint(3, TInt(4, 1)), TPrint(5, TInt(6, 2))))
    /\ ctrl.res.ok
    /\ out = << <<49>>, <<50>> >>

(***************************************************************************)
(* C20: is_pure(body) is false if and only if body holds a Print anywhere  *)
(* in its subtree, at any depth and under any kind of term; the is_pure    *)
(* flag of a closure is set from it when the closure is created.           *)
(***************************************************************************)
RECURSIVE ContainsPrint(_)
ContainsPrint(term) ==
    CASE term.kind = "Print" -> TRUE
      [] term.kind \in {"Int", "Str", "Bool", "Var"} -> FALSE
      [] term.kind = "Let" -> ContainsPrint(term.value) \/ ContainsPrint(term.next)
      [] term.kind = "Function" -> ContainsPrint(term.value)
      [] term.kind = "Call" ->
            \/ ContainsPrint(term.callee)
            \/ \E i \in 1..Len(term.arguments) : ContainsPrint(term.arguments[i])
      [] term.kind = "If" ->
            \/ ContainsPrint(term.condition)
            \/ ContainsPrint(term.then)
            \/ ContainsPrint(term.otherwise)
      [] term.kind = "Binary" -> ContainsPrint(term.lhs) \/ ContainsPrint(term.rhs)
      [] term.kind = "Tuple" -> ContainsPrint(term.first) \/ ContainsPrint(term.second)
      [] term.kind \in {"First", "Second"} -> ContainsPrint(term.value)

C20_PurityStep ==
    (Interp /\ Evaluating({"Function"}))
    => /\ ctrl'.mode = "ret"
       /\ ctrl'.res.ok
       /\ ctrl'.res.val.tag = "Closure"
       /\ ctrl'.res.val.is_pure = ~ContainsPrint(ctrl.term.value)

C20_IsPure == [][C20_PurityStep]_vars

(***************************************************************************)
(* C21: for any closure f whose body holds no Print and any arguments that *)
(* are not closures, two calls f(args) of one run return equal values, or  *)
(* the same error, whatever is evaluated between and around them;          *)
(* memoization never changes the result or the output of a call.           *)
(***************************************************************************)
\* a call whose closure and arguments the claim is about
Memoizable(call) ==
    /\ ~ContainsPrint(call.closure.body)
    /\ \A i \in 1..Len(call.arguments) : call.arguments[i].tag # "Closure"

C21_RepeatedCalls ==
    \A a, b \in calls :
        (/\ Memoizable(a)
         /\ a.closure = b.closure
         /\ a.arguments = b.arguments)
        => a.res = b.res

(***************************************************************************)
(* C22: when the evaluation of a subterm returns an error, the enclosing   *)
(* term returns that same error unchanged (message, detail and location)   *)
(* and evaluates no further subterm: after the first error of a run no     *)
(* line is printed and no binding is added, up to the top-level result.    *)
(***************************************************************************)
C22_ErrorStep ==
    (ctrl.mode = "ret" /\ ~ctrl.res.ok /\ stack # <<>>)
    => /\ ctrl' = Ret(Head(stack).term, ctrl.res)
       /\ stack' = Tail(stack)
       /\ UNCHANGED <<out, ctxs, rcs>>

C22_ErrorsPropagate == [][C22_ErrorStep]_vars

\* print(undefined) op print(true) has ended with the error of the Var and
\* nothing printed
C22_Witness ==
    /\ Finished
    /\ program \in PrintedBinaryPrograms
    /\ program.lhs.value.kind = "Var"
    /\ program.rhs.value.kind = "Bool"
    /\ ~ctrl.res.ok
    /\ ctrl.res.err.location = program.lhs.value.location
    /\ out = <<>>

(***************************************************************************)
(* C23.  Integer arithmetic is signed 32-bit arithmetic.                   *)
(***************************************************************************)
\* the integer a op b, for a divisor that is not zero
Exact(op, a, b) ==
    CASE op = "Add" -> Add32(a, b)
      [] op = "Sub" -> Sub32(a, b)
      [] op = "Mul" -> Mul64(a, b)
      [] op = "Div" -> IF a = I32Min /\ b = 0 - 1 THEN Sub32(0, I32Min)
                       ELSE [v |-> TruncDiv(a, b), over |-> 0]
      [] op = "Rem" -> IF a = I32Min /\ b = 0 - 1 THEN [v |-> 0, over |-> 0]
                       ELSE [v |-> TruncRem(a, b), over |-> 0]

\* what the evaluator of the run makes of the operation p
Outcome(p) ==
    IF Interp THEN interp_binary_op(VInt(p.lhs.value), p, VInt(p.rhs.value))
    ELSE binary_op(VInt(p.lhs.value), p, VInt(p.rhs.value))

OverflowPolicy == {"wrap", "saturate", "error"}

\* res is what the policy makes of an integer outside the 32-bit range
Handled(policy, res, exact) ==
    CASE policy = "wrap" -> res = Ok(VInt(exact.v))
      [] policy = "saturate" -> res = Ok(VInt(IF exact.over > 0 THEN I32Max ELSE I32Min))
      [] policy = "error" -> ~res.ok /\ ~IsPanic(res)

Overflowing ==
    {p \in IntegerPrograms :
        /\ ~(p.op \in {"Div", "Rem"} /\ p.rhs.value = 0)
        /\ Exact(p.op, p.lhs.value, p.rhs.value).over # 0}

\* C23: when an arithmetic operation on two integers of [-2^31, 2^31-1] has
\* returned, an Int it returned is in [-2^31, 2^31-1], and there is one
\* policy among wrap, saturate and error that accounts for what the
\* evaluator makes of every operation of Add, Sub, Mul, Div and Rem whose
\* integer result is outside that range, -2^31 / -1 included.
C23_SignedThirtyTwoBit ==
    ((Finished \/ ctrl = Aborted) /\ program \in IntegerPrograms)
    => /\ (Finished /\ ctrl.res.ok /\ ctrl.res.val.tag = "Int")
          => "over" \notin DOMAIN ctrl.res.val
       /\ \E policy \in OverflowPolicy :
              \A p \in Overflowing :
                  Handled(policy, Outcome(p), Exact(p.op, p.lhs.value, p.rhs.value))

(***************************************************************************)
(* C24.  The arity of a call is checked before its arguments are evaluated.*)
(***************************************************************************)
\* C24: when the callee of a Call has returned a closure whose number of
\* parameters differs from the number of arguments of the call, the next
\* step returns the "invalid arguments" error from the call: no argument
\* term is evaluated, so nothing is printed and no parameter is bound.
C24_ArityStep ==
    (/\ Returned("call", "callee")
     /\ ctrl.res.ok
     /\ ctrl.res.val.tag = "Closure"
     /\ Len(Head(stack).term.arguments) # Len(ctrl.res.val.parameters))
    => /\ ctrl'.mode = "ret"
       /\ ctrl'.term = Head(stack).term
       /\ ~ctrl'.res.ok
       /\ ~IsPanic(ctrl'.res)
       /\ ctrl'.res.err.message = "invalid arguments"
       /\ stack' = Tail(stack)
       /\ out' = out

C24_ArityBeforeArguments == [][C24_ArityStep]_vars

(***************************************************************************)
(* C25.  The argument fingerprint.                                         *)
(***************************************************************************)
\* the same tag and the same payload at every level
RECURSIVE StructurallyEqual(_, _)
StructurallyEqual(a, b) ==
    /\ a.tag = b.tag
    /\ CASE a.tag = "Tuple" -> /\ StructurallyEqual(a.first, b.first)
                               /\ StructurallyEqual(a.second, b.second)
         [] a.tag = "Closure" -> a = b
         [] OTHER -> a.v = b.v

\* C25: two arguments that are no closures feed the same text to the hasher
\* only if they are the same value, tag and payload at every level; and
\* cache_key returns no key for arguments that hold a closure.
C25_Fingerprint ==
    /\ \A i, j \in 1..Len(hasher.fed) :
           hasher.fed[i] = hasher.fed[j]
           => StructurallyEqual(hasher.arguments[i], hasher.arguments[j])
    /\ (\E i \in 1..Len(hasher.arguments) : hasher.arguments[i].tag = "Closure")
       => hasher.status # "Some"

====
